---- MODULE Spec2Model ----
(***************************************************************************)
(* AutoML subsystem of the ML Studio (src/lib/ml-utils.ts):                *)
(* generateModelConfigurations, crossValidate and runAutoML.               *)
(*                                                                         *)
(* Numbers that are fractions in the source are kept exact:                *)
(*   - learning rates are in thousandths (0.001 is 1, 0.01 is 10, 0.1 is   *)
(*     100) and dropout rates in tenths (0.1 is 1, ... 0.3 is 3);          *)
(*   - a quotient a / b computed by the code (the fold average, the        *)
(*     progress percentage) is the record [num |-> a, den |-> b], compared *)
(*     by cross-multiplication.                                            *)
(* An absent optional value (JavaScript undefined) is the string Undefined  *)
(* for a name, Absent for a number and the empty sequence for a list or an *)
(* object (a defined object x is <<x>>).                                   *)
(***************************************************************************)
EXTENDS Integers, Sequences, FiniteSets, TLC

Undefined == "undefined"
Absent == 0 - 1

(***************************************************************************)
(* Bounds of the model.                                                    *)
(***************************************************************************)
\* largest dataset size (number of samples N) explored
MaxN == 5
\* largest crossValidationFolds explored (the UI slider allows 2..10)
MaxFolds == 3
\* maxTrials is drawn from 0..MaxSmallTrials and from the values around the
\* cap; a run of at most MaxSmallTrials trials takes every outcome in every
\* trial, a longer run follows one scripted scenario
MaxSmallTrials == 2

(***************************************************************************)
(* Program constants.                                                      *)
(***************************************************************************)
\* ml-utils.ts:347  if (configurations.length >= 50) return configurations
MaxConfigurations == 50
\* ml-utils.ts:343  epochs: Math.min(baseConfig.epochs, 20)
EpochCap == 20

Min(a, b) == IF a <= b THEN a ELSE b

Range(s) == {s[k] : k \in 1..Len(s)}

(***************************************************************************)
(* Exact quotients.                                                        *)
(***************************************************************************)
Quot(a, b) == [num |-> a, den |-> b]
\* x > y for quotients with positive denominators
QGreater(x, y) == x.num * y.den > y.num * x.den
QGeq(x, y) == x.num * y.den >= y.num * x.den
QEq(x, y) == x.num * y.den = y.num * x.den

(***************************************************************************)
(* generateModelConfigurations (ml-utils.ts:310-359).                      *)
(***************************************************************************)
modelTypes == <<"simple", "deep", "wide", "linear">>
learningRates == <<1, 10, 100>>
batchSizes == <<16, 32, 64>>
dropoutRates == <<0, 1, 2, 3>>
optimizers == <<"adam", "sgd", "rmsprop">>
activations == <<"relu", "tanh", "sigmoid">>
hiddenLayerConfigs == << <<32>>, <<64, 32>>, <<128, 64, 32>>, <<256, 128, 64>> >>

\* mutant of MakeConfiguration: the spread of baseConfig comes last, so the
\* fields baseConfig sets win over the swept values and epochs is not capped
MakeConfigurationSpreadLast(baseConfig, modelType, learningRate, batchSize, dropoutRate, optimizer, activation, hiddenLayers) ==
  [baseConfig EXCEPT !.modelType = IF baseConfig.modelType = Undefined THEN modelType ELSE @,
                     !.learningRate = @,
                     !.batchSize = @,
                     !.dropoutRate = IF baseConfig.dropoutRate = Absent THEN dropoutRate ELSE @,
                     !.optimizer = IF baseConfig.optimizer = Undefined THEN optimizer ELSE @,
                     !.activation = IF baseConfig.activation = Undefined THEN activation ELSE @,
                     !.hiddenLayers = IF baseConfig.hiddenLayers = <<>> THEN hiddenLayers ELSE @]

\* the object literal pushed at ml-utils.ts:334-344: the spread of baseConfig,
\* then the seven swept fields, then the capped epochs
MakeConfiguration(baseConfig, modelType, learningRate, batchSize, dropoutRate, optimizer, activation, hiddenLayers) ==
  [baseConfig EXCEPT !.modelType = modelType,
                     !.learningRate = learningRate,
                     !.batchSize = batchSize,
                     !.dropoutRate = dropoutRate,
                     !.optimizer = optimizer,
                     !.activation = activation,
                     !.hiddenLayers = hiddenLayers,
                     !.epochs = Min(baseConfig.epochs, EpochCap)]

\* mutant of LimitReached: the test is made one push too late
LimitReachedLate(configurations) == Len(configurations) > MaxConfigurations

\* the length test that ends the enumeration (ml-utils.ts:347)
LimitReached(configurations) == Len(configurations) >= MaxConfigurations

\* Each loop is a recursion over the position k in its list; a loop result is
\* [cfgs |-> the configurations pushed so far, ret |-> the function returned].
RECURSIVE LoopHiddenLayers(_, _, _, _, _, _, _, _, _)
LoopHiddenLayers(base, acc, mt, lr, bs, dr, op, ac, k) ==
  IF k > Len(hiddenLayerConfigs) THEN [cfgs |-> acc, ret |-> FALSE]
  ELSE LET pushed == Append(acc, MakeConfiguration(base, mt, lr, bs, dr, op, ac,
                                                   hiddenLayerConfigs[k]))
       IN IF LimitReached(pushed) THEN [cfgs |-> pushed, ret |-> TRUE]
          ELSE LoopHiddenLayers(base, pushed, mt, lr, bs, dr, op, ac, k + 1)

RECURSIVE LoopActivations(_, _, _, _, _, _, _, _)
LoopActivations(base, acc, mt, lr, bs, dr, op, k) ==
  IF k > Len(activations) THEN [cfgs |-> acc, ret |-> FALSE]
  ELSE LET r == LoopHiddenLayers(base, acc, mt, lr, bs, dr, op, activations[k], 1)
       IN IF r.ret THEN r
          ELSE LoopActivations(base, r.cfgs, mt, lr, bs, dr, op, k + 1)

RECURSIVE LoopOptimizers(_, _, _, _, _, _, _)
LoopOptimizers(base, acc, mt, lr, bs, dr, k) ==
  IF k > Len(optimizers) THEN [cfgs |-> acc, ret |-> FALSE]
  ELSE LET r == LoopActivations(base, acc, mt, lr, bs, dr, optimizers[k], 1)
       IN IF r.ret THEN r
          ELSE LoopOptimizers(base, r.cfgs, mt, lr, bs, dr, k + 1)

\* mutant of LoopDropoutRates: reaching the limit ends the optimizer loop
\* only, the dropout loop goes on with its next rate
RECURSIVE LoopDropoutRatesNoReturn(_, _, _, _, _, _)
LoopDropoutRatesNoReturn(base, acc, mt, lr, bs, k) ==
  IF k > Len(dropoutRates) THEN [cfgs |-> acc, ret |-> FALSE]
  ELSE LET r == LoopOptimizers(base, acc, mt, lr, bs, dropoutRates[k], 1)
       IN LoopDropoutRatesNoReturn(base, r.cfgs, mt, lr, bs, k + 1)

RECURSIVE LoopDropoutRates(_, _, _, _, _, _)
LoopDropoutRates(base, acc, mt, lr, bs, k) ==
  IF k > Len(dropoutRates) THEN [cfgs |-> acc, ret |-> FALSE]
  ELSE LET r == LoopOptimizers(base, acc, mt, lr, bs, dropoutRates[k], 1)
       IN IF r.ret THEN r
          ELSE LoopDropoutRates(base, r.cfgs, mt, lr, bs, k + 1)

RECURSIVE LoopBatchSizes(_, _, _, _, _)
LoopBatchSizes(base, acc, mt, lr, k) ==
  IF k > Len(batchSizes) THEN [cfgs |-> acc, ret |-> FALSE]
  ELSE LET r == LoopDropoutRates(base, acc, mt, lr, batchSizes[k], 1)
       IN IF r.ret THEN r
          ELSE LoopBatchSizes(base, r.cfgs, mt, lr, k + 1)

RECURSIVE LoopLearningRates(_, _, _, _)
LoopLearningRates(base, acc, mt, k) ==
  IF k > Len(learningRates) THEN [cfgs |-> acc, ret |-> FALSE]
  ELSE LET r == LoopBatchSizes(base, acc, mt, learningRates[k], 1)
       IN IF r.ret THEN r
          ELSE LoopLearningRates(base, r.cfgs, mt, k + 1)

RECURSIVE LoopModelTypes(_, _, _)
LoopModelTypes(base, acc, k) ==
  IF k > Len(modelTypes) THEN [cfgs |-> acc, ret |-> FALSE]
  ELSE LET r == LoopLearningRates(base, acc, modelTypes[k], 1)
       IN IF r.ret THEN r
          ELSE LoopModelTypes(base, r.cfgs, k + 1)

generateModelConfigurations(baseConfig) ==
  LoopModelTypes(baseConfig, <<>>, 1).cfgs

(***************************************************************************)
(* Inputs of a run.                                                        *)
(***************************************************************************)
\* the page's default ModelConfig (page.tsx:36-46) with a target chosen: no
\* swept optional field is set, epochs below the cap
PageConfig ==
  [epochs |-> 10, batchSize |-> 32, learningRate |-> 1, targetVariable |-> "target",
   modelType |-> Undefined, hiddenLayers |-> <<>>, dropoutRate |-> Absent,
   optimizer |-> Undefined, activation |-> Undefined]

\* a ModelConfig that sets every field to a value outside the sweep lists,
\* epochs above the cap
CustomConfig ==
  [epochs |-> 25, batchSize |-> 8, learningRate |-> 5, targetVariable |-> "label",
   modelType |-> "custom", hiddenLayers |-> <<16, 8>>, dropoutRate |-> 5,
   optimizer |-> "adagrad", activation |-> "elu"]

BaseConfigs == {PageConfig, CustomConfig, [PageConfig EXCEPT !.epochs = EpochCap]}

MaxTrialsChoices ==
  (0..MaxSmallTrials) \cup {MaxConfigurations - 1, MaxConfigurations, MaxConfigurations + 1}

AutoMLConfigs ==
  [maxTrials : MaxTrialsChoices, validationSplit : {2}, earlyStoppingPatience : {5},
   crossValidationFolds : 2..MaxFolds]

\* the features tensor, by its number of rows (features.shape[0])
FeatureTensors == [rows : 1..MaxN]

\* what model.evaluate yields for a fold: loss and accuracy, accuracy in halves
FoldEvaluations == {[loss |-> 1, accuracy |-> 0], [loss |-> 0, accuracy |-> 2]}

\* where a fold of crossValidate can raise before its first await: the two
\* slices and the two gathers (ml-utils.ts:377-378 and 388-389)
FoldSetUpOrigins ==
  {"cv.slice.features", "cv.slice.target", "cv.gather.features", "cv.gather.target"}

\* How the statements of a fold up to its first await end: at one of the
\* raise sites of the set-up, or at the await of line 392, which createModel
\* is called for.  createModel has no await of its own (lines 227-240), so
\* its body runs within the call: "reached" is the await reached with the
\* model built, "cv.createModel" the await reached with the body having
\* raised, its promise rejected.
FoldSetUps == {"reached", "cv.createModel"} \cup FoldSetUpOrigins

\* How the call of createModel for the final model ends (line 442): with the
\* model built, or with the body having raised and its promise rejected.
FinalCreations == {"created", "createModel"}

\* where a fold of crossValidate can raise (ml-utils.ts:377-398)
FoldRaiseOrigins ==
  FoldSetUpOrigins
    \cup {"cv.createModel", "cv.trainModel", "cv.evaluate",
          "cv.data.evaluation[0]", "cv.data.evaluation[1]"}

\* where the final fit of a trial can raise (ml-utils.ts:442-443)
FinalRaiseOrigins == {"createModel", "trainModel"}

\* the tf.History of model.fit with validationSplit 0.2 over config.epochs
\* epochs (ml-utils.ts:277-282): one entry per epoch under loss, val_acc and
\* val_loss
FitHistory(config) ==
  [loss |-> [e \in 1..config.epochs |-> 1],
   val_acc |-> [e \in 1..config.epochs |-> IF e = config.epochs THEN 2 ELSE 0],
   val_loss |-> [e \in 1..config.epochs |-> IF e = config.epochs THEN 1 ELSE 3]]

\* The scripted scenario of a long run: trial idx (0-based) raises in the
\* training of its first fold when idx % 7 = 3, in its final fit when
\* idx % 11 = 10, and otherwise its folds evaluate so that the accuracy sums
\* cycle through 0, 2, 4.
ScriptFoldRaises(idx, f) == idx % 7 = 3 /\ f = 0
ScriptFinalRaises(idx) == idx % 11 = 10
ScriptEvaluation(idx, f) ==
  IF idx % 3 > f THEN [loss |-> 0, accuracy |-> 2] ELSE [loss |-> 1, accuracy |-> 0]

(***************************************************************************)
(* results.sort((a, b) => b.metrics.accuracy - a.metrics.accuracy)         *)
(* (ml-utils.ts:477).  Array.prototype.sort is stable.                     *)
(***************************************************************************)
\* mutant of CompareFn: the operands are swapped (an ascending sort)
CompareFnAscending(a, b) ==
  LET d == a.metrics.accuracy.num * b.metrics.accuracy.den
           - b.metrics.accuracy.num * a.metrics.accuracy.den
  IN IF d > 0 THEN 1 ELSE IF d < 0 THEN 0 - 1 ELSE 0

\* the sign of the comparator's value b.metrics.accuracy - a.metrics.accuracy
CompareFn(a, b) ==
  LET d == b.metrics.accuracy.num * a.metrics.accuracy.den
           - a.metrics.accuracy.num * b.metrics.accuracy.den
  IN IF d > 0 THEN 1 ELSE IF d < 0 THEN 0 - 1 ELSE 0

\* mutant of InsertSorted: x is placed ahead of the elements it ties with
\* (a sort that is not stable)
RECURSIVE InsertSortedAheadOfTies(_, _)
InsertSortedAheadOfTies(s, x) ==
  IF s = <<>> THEN <<x>>
  ELSE IF CompareFn(s[Len(s)], x) < 0 THEN Append(s, x)
  ELSE Append(InsertSortedAheadOfTies(SubSeq(s, 1, Len(s) - 1), x), s[Len(s)])

\* x placed into the sorted sequence s behind every element it does not precede
RECURSIVE InsertSorted(_, _)
InsertSorted(s, x) ==
  IF s = <<>> THEN <<x>>
  ELSE IF CompareFn(s[Len(s)], x) <= 0 THEN Append(s, x)
  ELSE Append(InsertSorted(SubSeq(s, 1, Len(s) - 1), x), s[Len(s)])

RECURSIVE SortResults(_)
SortResults(s) ==
  IF s = <<>> THEN <<>>
  ELSE InsertSorted(SortResults(SubSeq(s, 1, Len(s) - 1)), s[Len(s)])

(***************************************************************************)
(* crossValidate (ml-utils.ts:361-417): the index arithmetic of a fold.    *)
(***************************************************************************)
\* mutant of FoldSize: Math.ceil for Math.floor
FoldSizeCeil(dataSize, folds) == (dataSize + folds - 1) \div folds
\* Math.floor(dataSize / folds)                                 (line 368)
FoldSize(dataSize, folds) == dataSize \div folds
\* fold * foldSize                                              (line 373)
StartIdx(dataSize, folds, f) == f * FoldSize(dataSize, folds)
\* mutant of EndIdx: the last fold does not absorb the remainder
EndIdxNoRemainder(dataSize, folds, f) == (f + 1) * FoldSize(dataSize, folds)

\* fold === folds - 1 ? dataSize : (fold + 1) * foldSize        (line 374)
EndIdx(dataSize, folds, f) ==
  IF f = folds - 1 THEN dataSize ELSE (f + 1) * FoldSize(dataSize, folds)
\* the rows of features.slice([startIdx, 0], [endIdx - startIdx, -1])  (377)
ValIndices(dataSize, folds, f) ==
  [k \in 1..(EndIdx(dataSize, folds, f) - StartIdx(dataSize, folds, f)) |->
     StartIdx(dataSize, folds, f) + k - 1]
\* mutant of TrainIndicesFrom: i <= startIdx for i < startIdx, the first
\* validation sample is trained on
RECURSIVE TrainIndicesFromInclusive(_, _, _, _)
TrainIndicesFromInclusive(idx, dataSize, startIdx, endIdx) ==
  IF idx >= dataSize THEN <<>>
  ELSE (IF idx <= startIdx \/ idx >= endIdx THEN <<idx>> ELSE <<>>)
       \o TrainIndicesFromInclusive(idx + 1, dataSize, startIdx, endIdx)

\* the loop of lines 381-386: every i of 0..dataSize-1, ascending, with
\* i < startIdx || i >= endIdx
RECURSIVE TrainIndicesFrom(_, _, _, _)
TrainIndicesFrom(idx, dataSize, startIdx, endIdx) ==
  IF idx >= dataSize THEN <<>>
  ELSE (IF idx < startIdx \/ idx >= endIdx THEN <<idx>> ELSE <<>>)
       \o TrainIndicesFrom(idx + 1, dataSize, startIdx, endIdx)

TrainIndices(dataSize, folds, f) ==
  TrainIndicesFrom(0, dataSize, StartIdx(dataSize, folds, f), EndIdx(dataSize, folds, f))

(***************************************************************************)
(* splitFeatureTarget (ml-utils.ts:111-128).  A ProcessedData is a record  *)
(* [tensor, features]: tensor is the matrix of tensor.arraySync(), a        *)
(* sequence of rows, features the list of column names.                    *)
(***************************************************************************)
MaxColumns == 3
MaxRows == 2

\* what tf.tensor1d stores for an undefined entry
NaN == 0 - 2

\* mutant of IndexOf: the last occurrence for the first
LastIndexOf(seq, x) ==
  IF \E k \in 1..Len(seq) : seq[k] = x
  THEN (CHOOSE k \in 1..Len(seq) : seq[k] = x /\ \A j \in (k + 1)..Len(seq) : seq[j] # x) - 1
  ELSE 0 - 1

\* mutant of IndexOf: an absent element is reported at index 0
IndexOfOrFirst(seq, x) ==
  IF \E k \in 1..Len(seq) : seq[k] = x
  THEN (CHOOSE k \in 1..Len(seq) : seq[k] = x /\ \A j \in 1..(k - 1) : seq[j] # x) - 1
  ELSE 0

\* Array.prototype.indexOf: the 0-based index of the first element strictly
\* equal to x, or -1                                              (line 115)
IndexOf(seq, x) ==
  IF \E k \in 1..Len(seq) : seq[k] = x
  THEN (CHOOSE k \in 1..Len(seq) : seq[k] = x /\ \A j \in 1..(k - 1) : seq[j] # x) - 1
  ELSE 0 - 1

\* row.filter((_, i) => i !== targetIndex)                        (line 122)
RECURSIVE FilterIndex(_, _, _)
FilterIndex(row, idx, targetIndex) ==
  IF idx >= Len(row) THEN <<>>
  ELSE (IF idx # targetIndex THEN <<row[idx + 1]>> ELSE <<>>)
       \o FilterIndex(row, idx + 1, targetIndex)

\* row[targetIndex] as tf.tensor1d stores it                 (lines 123, 127)
ElementAt(row, targetIndex) ==
  IF targetIndex < Len(row) THEN row[targetIndex + 1] ELSE NaN

\* the error thrown at line 117; message is the template's pieces
NotFound(targetColumn) ==
  [raised |-> TRUE,
   message |-> <<"Target column \"", targetColumn, "\" not found in dataset">>,
   features |-> <<>>,
   target |-> <<>>,
   tensorsCreated |-> 0]

\* the outcome of splitFeatureTarget(data, targetColumn): the error raised,
\* or the values of the two tensors returned; tensorsCreated counts the
\* tf.tensor2d and tf.tensor1d calls made
splitFeatureTarget(data, targetColumn) ==
  LET targetIndex == IndexOf(data.features, targetColumn)
  IN IF targetIndex = 0 - 1
     THEN NotFound(targetColumn)
     ELSE [raised |-> FALSE,
           message |-> <<>>,
           features |-> [r \in 1..Len(data.tensor) |-> FilterIndex(data.tensor[r], 0, targetIndex)],
           target |-> [r \in 1..Len(data.tensor) |-> ElementAt(data.tensor[r], targetIndex)],
           tensorsCreated |-> 2]

\* the column names of the datasets tried, and the target names asked for:
\* "Target" differs from a column name by case only
ColumnNames == {"a", "b", "target"}
TargetNames == ColumnNames \cup {"Target"}

\* all lists of 1..n column names, repeated names included
RECURSIVE NameLists(_)
NameLists(n) ==
  IF n = 0 THEN {<<>>}
  ELSE NameLists(n - 1) \cup {Append(l, c) : l \in {x \in NameLists(n - 1) : Len(x) = n - 1}, c \in ColumnNames}

\* a rows x cols matrix whose cells are pairwise different
Matrix(rows, cols) == [r \in 1..rows |-> [c \in 1..cols |-> 10 * r + c]]

\* the datasets tried: as many columns as names (what preprocessCSV makes of
\* a well-formed file), and also fewer or more (a file whose header is
\* longer or shorter than its rows)
Datasets ==
  {[tensor |-> Matrix(rows, cols), features |-> names] :
     rows \in 1..MaxRows, cols \in 1..MaxColumns, names \in NameLists(MaxColumns) \ {<<>>}}

(***************************************************************************)
(* createModel and the four architectures (ml-utils.ts:131-240).  A model  *)
(* is the sequence of the layers added to tf.sequential(), in order.       *)
(***************************************************************************)
MaxHidden == 3

\* tf.layers.dense({inputShape, units, activation}); inputShape is <<>> when
\* the layer is given none
Dense(units, activation, inputShape) ==
  [type |-> "dense", units |-> units, activation |-> activation, rate |-> Absent, inputShape |-> inputShape]

\* tf.layers.dropout({rate})
Dropout(rate) ==
  [type |-> "dropout", units |-> Absent, activation |-> Undefined, rate |-> rate, inputShape |-> <<>>]

\* config.activation || 'relu'
ActivationOf(config) == IF config.activation = Undefined THEN "relu" ELSE config.activation

\* if (config.dropoutRate && config.dropoutRate > 0) model.add(dropout)
DropoutIfAny(config) ==
  IF config.dropoutRate # Absent /\ config.dropoutRate # 0 /\ config.dropoutRate > 0
  THEN <<Dropout(config.dropoutRate)>>
  ELSE <<>>

\* mutant of createSimpleModel: the hidden layer has the first width of
\* config.hiddenLayers when there is one
createSimpleModelFirstHidden(inputFeatures, config) ==
  <<Dense(IF config.hiddenLayers = <<>> THEN 32 ELSE config.hiddenLayers[1],
          ActivationOf(config), <<inputFeatures>>)>>
  \o DropoutIfAny(config)
  \o <<Dense(1, "sigmoid", <<>>)>>

\* lines 131-150
createSimpleModel(inputFeatures, config) ==
  <<Dense(32, ActivationOf(config), <<inputFeatures>>)>>
  \o DropoutIfAny(config)
  \o <<Dense(1, "sigmoid", <<>>)>>

\* mutant of DeepLoop: the layers after the first get no dropout
RECURSIVE DeepLoopNoDropout(_, _, _)
DeepLoopNoDropout(hiddenLayers, idx, config) ==
  IF idx >= Len(hiddenLayers) THEN <<>>
  ELSE <<Dense(hiddenLayers[idx + 1], ActivationOf(config), <<>>)>>
       \o DeepLoopNoDropout(hiddenLayers, idx + 1, config)

\* the loop of lines 167-176, from i = idx
RECURSIVE DeepLoop(_, _, _)
DeepLoop(hiddenLayers, idx, config) ==
  IF idx >= Len(hiddenLayers) THEN <<>>
  ELSE <<Dense(hiddenLayers[idx + 1], ActivationOf(config), <<>>)>>
       \o DropoutIfAny(config)
       \o DeepLoop(hiddenLayers, idx + 1, config)

\* lines 152-183; an absent hiddenLayers is <<>>
createDeepModel(inputFeatures, config) ==
  LET hiddenLayers == IF config.hiddenLayers = <<>> THEN <<128, 64, 32>> ELSE config.hiddenLayers
  IN <<Dense(hiddenLayers[1], ActivationOf(config), <<inputFeatures>>)>>
     \o DropoutIfAny(config)
     \o DeepLoop(hiddenLayers, 1, config)
     \o <<Dense(1, "sigmoid", <<>>)>>

\* lines 185-213
createWideModel(inputFeatures, config) ==
  <<Dense(256, ActivationOf(config), <<inputFeatures>>)>>
  \o DropoutIfAny(config)
  \o <<Dense(128, ActivationOf(config), <<>>)>>
  \o DropoutIfAny(config)
  \o <<Dense(1, "sigmoid", <<>>)>>

\* lines 215-225
createLinearModel(inputFeatures) == <<Dense(1, "sigmoid", <<inputFeatures>>)>>

\* mutant of createModel: the default branch builds the linear model
createModelDefaultLinear(inputFeatures, config) ==
  CASE config.modelType = "simple" -> createSimpleModel(inputFeatures, config)
    [] config.modelType = "deep" -> createDeepModel(inputFeatures, config)
    [] config.modelType = "wide" -> createWideModel(inputFeatures, config)
    [] OTHER -> createLinearModel(inputFeatures)

\* the switch of lines 227-240
createModel(inputFeatures, config) ==
  CASE config.modelType = "simple" -> createSimpleModel(inputFeatures, config)
    [] config.modelType = "deep" -> createDeepModel(inputFeatures, config)
    [] config.modelType = "wide" -> createWideModel(inputFeatures, config)
    [] config.modelType = "linear" -> createLinearModel(inputFeatures)
    [] OTHER -> createSimpleModel(inputFeatures, config)

\* the hidden-layer lists tried: absent, and lists of 1..MaxHidden widths,
\* descending or ascending
HiddenLayerLists ==
  {<<>>} \cup {[j \in 1..n |-> 8 * (n - j + 1)] : n \in 1..MaxHidden}
         \cup {[j \in 1..n |-> 8 * j] : n \in 1..MaxHidden}

\* the model types tried: absent, the four known, one that differs from a
\* known one by case only, and an unknown one
ModelTypeChoices == {Undefined, "simple", "deep", "wide", "linear", "Deep", "custom"}

\* the arguments of createModel tried
CreateModelArgs ==
  {[inputFeatures |-> n,
    config |-> [PageConfig EXCEPT !.modelType = mt, !.hiddenLayers = h, !.dropoutRate = d, !.activation = a]] :
     n \in 1..MaxColumns, mt \in ModelTypeChoices, h \in HiddenLayerLists,
     d \in {Absent, 0, 2}, a \in {Undefined, "tanh"}}

(***************************************************************************)
(* runAutoML (ml-utils.ts:419-480).                                        *)
(***************************************************************************)
VARIABLES
  pc,              \* the await the invocation is suspended at: "idle" (not
                   \* yet called); in crossValidate "cv" (createModel, line
                   \* 392), "cv.fit" (trainModel, 393), "cv.loss" and
                   \* "cv.accuracy" (data(), 397 and 398); in runAutoML
                   \* "cv.resolved" and "cv.rejected" (line 439, crossValidate
                   \* has returned or raised), "final" (createModel, 442),
                   \* "final.fit" (trainModel, 443); "done" (returned)
  features,        \* argument: the feature tensor
  baseConfig,      \* argument
  autoMLConfig,    \* argument
  onProgress,      \* argument: Undefined, or a callback that "returns" or "raises"
  configurations,  \* line 426
  results,         \* line 427; after the return, the leaderboard
  bestResult,      \* line 428: <<>> or <<the best ModelResult so far>>
  trialsToRun,     \* line 431
  i,               \* line 433: 0-based index of the current trial
  fold,            \* crossValidate, line 372
  totalAccuracy,   \* crossValidate, line 369
  totalLoss,       \* crossValidate, line 370
  cvFolds,         \* the folds the current crossValidate call has set up and
                   \* left, in order
  evaluation,      \* crossValidate, line 396: <<>> or <<what model.evaluate
                   \* returned for the fold>>
  rejection,       \* <<>> or <<the origin of the exception crossValidate has
                   \* rejected with>>
  calls,           \* the onProgress invocations made, in order
  errorLog,        \* the console.error lines of line 472, in order
  allocated,       \* the tensors and models the run has created and not disposed
  fits,            \* the model.fit calls of the run: their starts and ends, in order
  processedData,   \* splitFeatureTarget: the argument data
  targetVariable,  \* splitFeatureTarget: the argument targetColumn
  split,           \* splitFeatureTarget: <<>> or <<the outcome of the call>>
  modelArgs,       \* createModel: the arguments inputFeatures and config
  built,           \* createModel: <<>> or <<the model the call resolved to>>
  firstRun,        \* <<>>, or <<what an earlier invocation of runAutoML was given,
                   \* did and returned>>
  activeStep,      \* page.tsx:28
  isAutoMLMode,    \* page.tsx:47
  isAutoMLRunning, \* page.tsx:49
  autoMLResults,   \* page.tsx:48
  pageModel,       \* page.tsx:30, the state "model": <<>> (null) or <<the model set>>
  autoMLProgress,  \* page.tsx:50
  currentTrial,    \* page.tsx:51
  pageBestResult,  \* page.tsx:52, the state "bestResult": <<>> or <<a ModelResult>>
  trainingMetrics, \* page.tsx:31-35
  inFlight,        \* the invocations of handleTrainingStart that are suspended,
                   \* counted by the call they await
  pendingUploads   \* the invocations of handleFileUploaded that are suspended at
                   \* preprocessData (page.tsx:63), counted by the file dropped

vars == <<pc, features, baseConfig, autoMLConfig, onProgress, configurations, results, bestResult, trialsToRun, i, fold, totalAccuracy, totalLoss, cvFolds, evaluation, rejection, calls, errorLog, allocated, fits, processedData, targetVariable, split, modelArgs, built, firstRun, activeStep, isAutoMLMode, isAutoMLRunning, autoMLResults, pageModel, autoMLProgress, currentTrial, pageBestResult, trainingMetrics, inFlight, pendingUploads>>

\* the state of the page component
pageVars == <<activeStep, isAutoMLMode, isAutoMLRunning, autoMLResults, pageModel, autoMLProgress, currentTrial, pageBestResult, trainingMetrics, inFlight, pendingUploads>>

args == <<features, baseConfig, autoMLConfig, onProgress>>

\* the variables that one invocation of runAutoML leaves alone: those of
\* the calls of the pure functions and the record of an earlier invocation
fnVars == <<processedData, targetVariable, split, modelArgs, built, firstRun, pageVars>>

\* the calls a suspended handleTrainingStart can be awaiting (page.tsx:92,
\* 113 and 116)
AwaitedCalls == {"runAutoML", "createModel", "trainModel"}

\* the files the user drops: a CSV file with the column "target", one
\* without it, and a file the FileReader fails on
PageFiles == {"labelled.csv", "unlabelled.csv", "unreadable.csv"}

\* the page as Home's useState calls make it (page.tsx:28-52)
PageMounted ==
  /\ activeStep = 0
  /\ isAutoMLMode = FALSE
  /\ isAutoMLRunning = FALSE
  /\ autoMLResults = <<>>
  /\ pageModel = <<>>
  /\ autoMLProgress = Quot(0, 1)
  /\ currentTrial = 0
  /\ pageBestResult = <<>>
  /\ trainingMetrics = [currentEpoch |-> 0, loss |-> 0, accuracy |-> 0]
  /\ inFlight = [c \in AwaitedCalls |-> 0]
  /\ pendingUploads = [file \in PageFiles |-> 0]

\* no pure function is being followed
NoCall ==
  /\ processedData = [tensor |-> Matrix(1, 1), features |-> <<"target">>]
  /\ targetVariable = "target"
  /\ split = <<>>
  /\ modelArgs = [inputFeatures |-> 1, config |-> PageConfig]
  /\ built = <<>>
  /\ firstRun = <<>>
  /\ PageMounted

\* the run has more than one trial; these runs are followed on the largest
\* dataset only
SeveralTrials(amc) == amc.maxTrials > 1

\* the run has more than one trial and its trials take every outcome; these
\* runs are followed on the page's config only
SeveralFreeTrials(amc) == amc.maxTrials \in 2..MaxSmallTrials

\* the run is the longest of those whose trials take every outcome; these
\* runs are followed with two folds only
LongestFreeRun(amc) == amc.maxTrials = MaxSmallTrials

Init ==
  /\ pc = "idle"
  /\ features \in FeatureTensors
  /\ baseConfig \in BaseConfigs
  /\ autoMLConfig \in AutoMLConfigs
  /\ onProgress \in {Undefined, "returns", "raises"}
  /\ SeveralTrials(autoMLConfig) => features.rows = MaxN
  /\ SeveralFreeTrials(autoMLConfig) => baseConfig = PageConfig
  /\ LongestFreeRun(autoMLConfig) => autoMLConfig.crossValidationFolds = 2
  /\ configurations = <<>>
  /\ results = <<>>
  /\ bestResult = <<>>
  /\ trialsToRun = 0
  /\ i = 0
  /\ fold = 0
  /\ totalAccuracy = 0
  /\ totalLoss = 0
  /\ cvFolds = <<>>
  /\ evaluation = <<>>
  /\ rejection = <<>>
  /\ calls = <<>>
  /\ errorLog = <<>>
  /\ allocated = {}
  /\ fits = <<>>
  /\ NoCall

\* Math.min(configurations.length, autoMLConfig.maxTrials)        (line 431)
TrialsToRun(cfgs, amc) == Min(Len(cfgs), amc.maxTrials)

\* mutant of LoopContinues: one iteration too many
LoopContinuesOffByOne(idx, n) == idx <= n

\* mutant of LoopContinues: the loop ends once a trial has raised
LoopContinuesUntilError(idx, n) == idx < n /\ errorLog = <<>>

\* the loop test i < trialsToRun                                  (line 433)
LoopContinues(idx, n) == idx < n

\* mutant of ProgressPercent: the denominator is the number of results
\* collected (the successful trials), not trialsToRun
ProgressPercentOverResults(idx, n) == Quot((idx + 1) * 100, Len(results) + 1)

\* (i + 1) / trialsToRun * 100                                    (line 468)
ProgressPercent(idx, n) == Quot((idx + 1) * 100, n)

\* mutant of UpdateBest: >= for >, an equal accuracy replaces the best
UpdateBestOnTies(best, result) ==
  IF best = <<>> \/ QGeq(result.metrics.accuracy, best[1].metrics.accuracy)
  THEN <<result>>
  ELSE best

\* if (!bestResult || result.metrics.accuracy > bestResult.metrics.accuracy)
\*   bestResult = result                                      (lines 462-464)
UpdateBest(best, result) ==
  IF best = <<>> \/ QGreater(result.metrics.accuracy, best[1].metrics.accuracy)
  THEN <<result>>
  ELSE best

\* mutant of CvResults: the totals are returned undivided
CvResultsUndivided(totAcc, totLoss, folds) ==
  [accuracy |-> Quot(totAcc, 1), loss |-> Quot(totLoss, 1)]

\* the return value of crossValidate                          (lines 413-416)
CvResults(totAcc, totLoss, folds) ==
  [accuracy |-> Quot(totAcc, folds), loss |-> Quot(totLoss, folds)]

\* the ModelResult assembled at lines 445-457 (trainingTime, a wall-clock
\* difference, is left out)
MakeResult(trial, config, cv, history) ==
  LET finalEpoch == Len(history.loss) - 1
  IN [model |-> [name |-> "final", trial |-> trial],
      config |-> config,
      metrics |-> [accuracy |-> cv.accuracy,
                   loss |-> cv.loss,
                   valAccuracy |-> IF history.val_acc # <<>>
                                   THEN Quot(history.val_acc[finalEpoch + 1], 1)
                                   ELSE cv.accuracy,
                   valLoss |-> IF history.val_loss # <<>>
                               THEN Quot(history.val_loss[finalEpoch + 1], 1)
                               ELSE cv.loss],
      modelType |-> IF config.modelType = Undefined THEN "simple" ELSE config.modelType]

\* the model const model = await createModel(...) makes in fold f of a
\* trial: a new object at every execution of line 392
FoldModel(trial, f) == [name |-> "fold", trial |-> trial, fold |-> f]

\* the record of one fold whose set-up reached the await of line 392, made
\* when the fold is left (lines 373-398): model is <<>> or <<the model of
\* line 392>>, read is <<>> or <<the loss and accuracy read at lines
\* 397-398>>
FoldEntry(dataSize, folds, f, model, read) ==
  [startIdx |-> StartIdx(dataSize, folds, f),
   endIdx |-> EndIdx(dataSize, folds, f),
   valIndices |-> ValIndices(dataSize, folds, f),
   trainIndices |-> TrainIndices(dataSize, folds, f),
   model |-> model,
   evaluation |-> read,
   evaluated |-> read # <<>>]

\* valFeatures, valTarget, trainFeatures and trainTarget of fold f (lines
\* 377-389), made before the fold's first await
FoldTensors(trial, f) ==
  {[kind |-> kd, trial |-> trial, fold |-> f] :
     kd \in {"valFeatures", "valTarget", "trainFeatures", "trainTarget"}}

\* the model of line 392, as a resource
FoldModelResource(trial, f) == [kind |-> "model", trial |-> trial, fold |-> f]

\* the two scalars model.evaluate returns (line 396)
EvaluationScalars(trial, f) ==
  {[kind |-> kd, trial |-> trial, fold |-> f] : kd \in {"evaluation[0]", "evaluation[1]"}}

\* what the clean-up at the end of a fold's iteration disposes (lines 404-410)
FoldDisposed(trial, f) ==
  FoldTensors(trial, f) \cup {FoldModelResource(trial, f)} \cup EvaluationScalars(trial, f)

\* what the set-up of fold f has created when it ends as setUp: the tensors
\* of the statements before the one that raises, all four when the await of
\* line 392 is reached
SetUpTensors(trial, f, setUp) ==
  {[kind |-> kd, trial |-> trial, fold |-> f] :
     kd \in CASE setUp = "cv.slice.features" -> {}
               [] setUp = "cv.slice.target" -> {"valFeatures"}
               [] setUp = "cv.gather.features" -> {"valFeatures", "valTarget"}
               [] setUp = "cv.gather.target" -> {"valFeatures", "valTarget", "trainFeatures"}
               [] OTHER -> {"valFeatures", "valTarget", "trainFeatures", "trainTarget"}}

\* finalModel of line 442, as a resource; fold is the fold count, past every
\* fold of the trial
FinalModelResource(trial) ==
  [kind |-> "finalModel", trial |-> trial, fold |-> autoMLConfig.crossValidationFolds]

\* mutant of ModelFit: the fit reads autoMLConfig, validationSplit for the
\* split and earlyStoppingPatience as the number of epochs after which a fit
\* that does not improve stops
ModelFitReadsAutoML(model, samples, config) ==
  [model |-> model,
   samples |-> samples,
   epochs |-> Min(config.epochs, autoMLConfig.earlyStoppingPatience),
   batchSize |-> config.batchSize,
   validationSplit |-> autoMLConfig.validationSplit]

\* the call model.fit(features, target, {epochs, batchSize, validationSplit:
\* 0.2, callbacks}) of trainModel (lines 277-282); samples are the row
\* indices of the features passed, validationSplit is in tenths
ModelFit(model, samples, config) ==
  [model |-> model,
   samples |-> samples,
   epochs |-> config.epochs,
   batchSize |-> config.batchSize,
   validationSplit |-> 2]

\* model.fit with validationSplit (lines 277-282): the rows before splitAt =
\* floor(rows * (1 - validationSplit)) are the ones the fit trains on, the
\* rows from splitAt on are held out and only validated on
SplitAt(fit) == (Len(fit.samples) * (10 - fit.validationSplit)) \div 10

TrainingSamples(fit) == SubSeq(fit.samples, 1, SplitAt(fit))

ValidationSamples(fit) == SubSeq(fit.samples, SplitAt(fit) + 1, Len(fit.samples))

\* model.fit is called: the fit starts             (line 277, from 393 and 443)
FitStarts(fit) == <<[at |-> "start", fit |-> fit]>>

\* mutant of FitEnds: trainModel is not awaited, the caller goes on while
\* the fit is running and its end is seen by nobody
FitEndsUnawaited(fit, outcome) == <<>>

\* the promise of trainModel settles and the awaiting caller resumes: the
\* fit has ended, "resolved" or "rejected"                (lines 393 and 443)
FitEnds(fit, outcome) == <<[at |-> outcome, fit |-> fit]>>

\* the fit of fold f of the trial in progress                    (line 393)
FoldFit(f) ==
  ModelFit(FoldModel(i + 1, f),
           TrainIndices(features.rows, autoMLConfig.crossValidationFolds, f),
           configurations[i + 1])

\* the final fit of the trial in progress, on the features runAutoML was
\* given                                                   (lines 442-443)
FinalFit ==
  ModelFit([name |-> "final", trial |-> i + 1],
           [r \in 1..features.rows |-> r - 1],
           configurations[i + 1])

\* the run is a long one: its trials follow the scripted scenario
Scripted == trialsToRun > MaxSmallTrials

\* The statements of a fold up to its first await (lines 373-392), run by
\* the step that enters the fold: a slice or a gather raises and
\* crossValidate rejects, or createModel is called and its promise awaited
\* (line 392).  The call builds the model, or raises and builds nothing.
SetUpFold(trial, f, alloc, setUp) ==
  /\ allocated' = alloc \cup SetUpTensors(trial, f, setUp)
                        \cup (IF setUp = "reached" THEN {FoldModelResource(trial, f)} ELSE {})
  /\ IF setUp \in FoldSetUpOrigins
     THEN /\ pc' = "cv.rejected"
          /\ rejection' = <<setUp>>
     ELSE /\ pc' = "cv"
          /\ rejection' = <<>>

\* The end of the loop body of trial i, common to every way a trial ends:
\* i++, then either the next trial calls crossValidate (line 439), which
\* sets up its first fold, or the loop ends, the results are sorted and
\* returned (lines 477-479).
EndTrial(res, alloc, setUp) ==
  /\ i' = i + 1
  /\ evaluation' = <<>>
  /\ IF LoopContinues(i + 1, trialsToRun)
     THEN /\ results' = res
          /\ fold' = 0
          /\ totalAccuracy' = 0
          /\ totalLoss' = 0
          /\ cvFolds' = <<>>
          /\ SetUpFold(i + 2, 0, alloc, setUp)
     ELSE /\ setUp = "reached"
          /\ pc' = "done"
          /\ results' = SortResults(res)
          /\ allocated' = alloc
          /\ rejection' = <<>>
          /\ UNCHANGED <<fold, totalAccuracy, totalLoss, cvFolds>>

\* The call, up to the first await of the first trial (lines 426-439 and
\* 367-392), or up to the return when there is no trial to run.
RunAutoML(setUp) ==
  /\ pc = "idle"
  /\ configurations' = generateModelConfigurations(baseConfig)
  /\ bestResult' = <<>>
  /\ trialsToRun' = TrialsToRun(configurations', autoMLConfig)
  /\ trialsToRun' > MaxSmallTrials => setUp = "reached"
  /\ i' = 0
  /\ fits' = <<>>
  /\ IF LoopContinues(0, trialsToRun')
     THEN /\ results' = <<>>
          /\ SetUpFold(1, 0, {}, setUp)
     ELSE /\ setUp = "reached"
          /\ pc' = "done"
          /\ results' = SortResults(<<>>)
          /\ allocated' = {}
          /\ rejection' = <<>>
  /\ fold' = 0
  /\ totalAccuracy' = 0
  /\ totalLoss' = 0
  /\ cvFolds' = <<>>
  /\ evaluation' = <<>>
  /\ UNCHANGED <<args, fnVars, calls, errorLog>>

\* The promise of createModel awaited in a fold resolves (line 392), the
\* model having been built by the call: trainModel compiles the model and
\* starts the fit, crossValidate awaits it (line 393).
FoldModelCreated ==
  /\ pc = "cv"
  /\ FoldModelResource(i + 1, fold) \in allocated
  /\ pc' = "cv.fit"
  /\ fits' = fits \o FitStarts(FoldFit(fold))
  /\ UNCHANGED <<args, fnVars, configurations, results, bestResult, trialsToRun, i, fold, totalAccuracy, totalLoss, cvFolds, evaluation, rejection, calls, errorLog, allocated>>

\* The fit of a fold resolves (line 393): model.evaluate returns the two
\* scalars (line 396) and crossValidate awaits the data of the first (397).
FoldFitResolves(ev) ==
  /\ pc = "cv.fit"
  /\ Scripted => ~ScriptFoldRaises(i, fold) /\ ev = ScriptEvaluation(i, fold)
  /\ pc' = "cv.loss"
  /\ fits' = fits \o FitEnds(FoldFit(fold), "resolved")
  /\ evaluation' = <<ev>>
  /\ allocated' = allocated \cup EvaluationScalars(i + 1, fold)
  /\ UNCHANGED <<args, fnVars, configurations, results, bestResult, trialsToRun, i, fold, totalAccuracy, totalLoss, cvFolds, rejection, calls, errorLog>>

\* evaluation[0].data() resolves (line 397): the loss is read and
\* crossValidate awaits the data of the second scalar (line 398).
LossRead ==
  /\ pc = "cv.loss"
  /\ pc' = "cv.accuracy"
  /\ UNCHANGED <<args, fnVars, configurations, results, bestResult, trialsToRun, i, fold, totalAccuracy, totalLoss, cvFolds, evaluation, rejection, calls, errorLog, allocated, fits>>

\* evaluation[1].data() resolves (line 398): the totals are updated, the
\* fold's model and tensors disposed (lines 400-410), and either the next
\* fold is set up or crossValidate returns (lines 413-416).
FoldCompletes(setUp) ==
  /\ pc = "cv.accuracy"
  /\ Scripted => setUp = "reached"
  /\ cvFolds' = Append(cvFolds, FoldEntry(features.rows, autoMLConfig.crossValidationFolds, fold, <<FoldModel(i + 1, fold)>>, evaluation))
  /\ totalLoss' = totalLoss + evaluation[1].loss
  /\ totalAccuracy' = totalAccuracy + evaluation[1].accuracy
  /\ evaluation' = <<>>
  /\ fold' = fold + 1
  /\ IF fold + 1 < autoMLConfig.crossValidationFolds
     THEN SetUpFold(i + 1, fold + 1, allocated \ FoldDisposed(i + 1, fold), setUp)
     ELSE /\ setUp = "reached"
          /\ pc' = "cv.resolved"
          /\ allocated' = allocated \ FoldDisposed(i + 1, fold)
          /\ rejection' = <<>>
  /\ UNCHANGED <<args, fnVars, configurations, results, bestResult, trialsToRun, i, calls, errorLog, fits>>

\* the await a raise at origin is delivered at, or, for model.evaluate, the
\* await the failing statement follows
RaisesAt(origin) ==
  CASE origin = "cv.createModel" -> "cv"
    [] origin \in {"cv.trainModel", "cv.evaluate"} -> "cv.fit"
    [] origin = "cv.data.evaluation[0]" -> "cv.loss"
    [] origin = "cv.data.evaluation[1]" -> "cv.accuracy"
    [] OTHER -> "none"

\* A raise at origin is due in the fold in progress: crossValidate is at the
\* await of origin, and the promise of createModel rejects exactly when the
\* call has built no model.
RaiseDue(origin) ==
  /\ pc = RaisesAt(origin)
  /\ origin = "cv.createModel" => FoldModelResource(i + 1, fold) \notin allocated

\* mutant of FoldRaises: the raise is caught and logged inside the fold loop,
\* crossValidate goes on with the next fold and averages what it has
FoldRaisesNextFold(origin) ==
  /\ RaiseDue(origin)
  /\ Scripted => ScriptFoldRaises(i, fold) /\ origin = "cv.trainModel"
  /\ errorLog' = Append(errorLog, [trial |-> i + 1, origin |-> origin])
  /\ cvFolds' = Append(cvFolds, FoldEntry(features.rows, autoMLConfig.crossValidationFolds, fold, IF origin = "cv.createModel" THEN <<>> ELSE <<FoldModel(i + 1, fold)>>, <<>>))
  /\ fold' = fold + 1
  /\ evaluation' = <<>>
  /\ fits' = fits \o (IF pc = "cv.fit"
                      THEN FitEnds(FoldFit(fold), IF origin = "cv.trainModel" THEN "rejected" ELSE "resolved")
                      ELSE <<>>)
  /\ IF fold + 1 < autoMLConfig.crossValidationFolds
     THEN SetUpFold(i + 1, fold + 1, allocated, "reached")
     ELSE /\ pc' = "cv.resolved"
          /\ allocated' = allocated
          /\ rejection' = <<>>
  /\ UNCHANGED <<args, fnVars, configurations, results, bestResult, trialsToRun, i, calls, totalLoss, totalAccuracy>>

\* A fold raises at origin after its first await: createModel, the fit or a
\* data() rejects, or model.evaluate raises once the fit has resolved.  The
\* fold loop has no try, so crossValidate rejects; what the fold has created
\* stays allocated, the clean-up of lines 404-410 is not reached.
FoldRaises(origin) ==
  /\ RaiseDue(origin)
  /\ Scripted => ScriptFoldRaises(i, fold) /\ origin = "cv.trainModel"
  /\ pc' = "cv.rejected"
  /\ rejection' = <<origin>>
  /\ cvFolds' = Append(cvFolds, FoldEntry(features.rows, autoMLConfig.crossValidationFolds, fold, IF origin = "cv.createModel" THEN <<>> ELSE <<FoldModel(i + 1, fold)>>, <<>>))
  /\ evaluation' = <<>>
  /\ fits' = fits \o (IF pc = "cv.fit"
                      THEN FitEnds(FoldFit(fold), IF origin = "cv.trainModel" THEN "rejected" ELSE "resolved")
                      ELSE <<>>)
  /\ UNCHANGED <<args, fnVars, configurations, results, bestResult, trialsToRun, i, fold, totalAccuracy, totalLoss, calls, errorLog, allocated>>

\* runAutoML resumes from the await of line 439 with the exception of
\* crossValidate: the catch of line 471 logs it and the loop goes on.
CrossValidateRejected(setUp) ==
  /\ pc = "cv.rejected"
  /\ Scripted => setUp = "reached"
  /\ errorLog' = Append(errorLog, [trial |-> i + 1, origin |-> rejection[1]])
  /\ EndTrial(results, allocated, setUp)
  /\ UNCHANGED <<args, fnVars, configurations, bestResult, trialsToRun, calls, fits>>

\* runAutoML resumes from the await of line 439 with the averages of
\* crossValidate, calls createModel for the final model and awaits its
\* promise (line 442).  The call builds the model, or raises and builds
\* nothing.
CrossValidateResolved(creation) ==
  /\ pc = "cv.resolved"
  /\ Scripted => creation = "created"
  /\ pc' = "final"
  /\ allocated' = allocated \cup (IF creation = "created" THEN {FinalModelResource(i + 1)} ELSE {})
  /\ UNCHANGED <<args, fnVars, configurations, results, bestResult, trialsToRun, i, fold, totalAccuracy, totalLoss, cvFolds, evaluation, rejection, calls, errorLog, fits>>

\* The promise of createModel awaited for the final model resolves (line
\* 442), the model having been built by the call: trainModel starts the
\* final fit and runAutoML awaits it (line 443).
FinalModelCreated ==
  /\ pc = "final"
  /\ FinalModelResource(i + 1) \in allocated
  /\ pc' = "final.fit"
  /\ fits' = fits \o FitStarts(FinalFit)
  /\ UNCHANGED <<args, fnVars, configurations, results, bestResult, trialsToRun, i, fold, totalAccuracy, totalLoss, cvFolds, evaluation, rejection, calls, errorLog, allocated>>

\* the await a raise of the final model's createModel or trainModel is
\* delivered at
FinalRaisesAt(origin) == IF origin = "createModel" THEN "final" ELSE "final.fit"

\* A raise at origin is due in the final fit: runAutoML is at the await of
\* origin, and the promise of createModel rejects exactly when the call has
\* built no model.
FinalRaiseDue(origin) ==
  /\ pc = FinalRaisesAt(origin)
  /\ origin = "createModel" => FinalModelResource(i + 1) \notin allocated

\* mutant of FinalFitRaises: the result is pushed and made the best before
\* the final fit is awaited, so a raising fit leaves it behind
FinalFitRaisesKeepsResult(origin, setUp) ==
  /\ FinalRaiseDue(origin)
  /\ Scripted => ScriptFinalRaises(i) /\ origin = "trainModel" /\ setUp = "reached"
  /\ errorLog' = Append(errorLog, [trial |-> i + 1, origin |-> origin])
  /\ LET config == configurations[i + 1]
         cv == CvResults(totalAccuracy, totalLoss, autoMLConfig.crossValidationFolds)
         result == MakeResult(i + 1, config, cv, FitHistory(config))
     IN /\ bestResult' = UpdateBest(bestResult, result)
        /\ EndTrial(Append(results, result), allocated, setUp)
  /\ fits' = fits \o (IF origin = "createModel" THEN <<>> ELSE FitEnds(FinalFit, "rejected"))
  /\ UNCHANGED <<args, fnVars, configurations, trialsToRun, calls>>

\* createModel or the final fit rejects (lines 442-443), inside the try: no
\* result, the catch logs and the loop goes on.
FinalFitRaises(origin, setUp) ==
  /\ FinalRaiseDue(origin)
  /\ Scripted => ScriptFinalRaises(i) /\ origin = "trainModel" /\ setUp = "reached"
  /\ errorLog' = Append(errorLog, [trial |-> i + 1, origin |-> origin])
  /\ EndTrial(results, allocated, setUp)
  /\ fits' = fits \o (IF origin = "createModel" THEN <<>> ELSE FitEnds(FinalFit, "rejected"))
  /\ UNCHANGED <<args, fnVars, configurations, bestResult, trialsToRun, calls>>

\* mutant of OnProgressCall: the second argument is the number of results
\* collected, this trial's included
OnProgressCallCountsResults(idx, n, best) ==
  [progress |-> ProgressPercent(idx, n), currentTrial |-> Len(results) + 1, bestResult |-> best]

\* onProgress((i + 1) / trialsToRun * 100, i + 1, bestResult) (lines 466-469)
OnProgressCall(idx, n, best) ==
  [progress |-> ProgressPercent(idx, n), currentTrial |-> idx + 1, bestResult |-> best]

\* mutant of TrialCompletes: onProgress is called before the result is
\* pushed and the best updated, so a raising callback leaves neither behind
TrialCompletesCallsFirst(setUp) ==
  /\ pc = "final.fit"
  /\ Scripted => ~ScriptFinalRaises(i) /\ setUp = "reached"
  /\ LET config == configurations[i + 1]
         cv == CvResults(totalAccuracy, totalLoss, autoMLConfig.crossValidationFolds)
         result == MakeResult(i + 1, config, cv, FitHistory(config))
         best == UpdateBest(bestResult, result)
     IN /\ bestResult' = IF onProgress = "raises" THEN bestResult ELSE best
        /\ calls' = IF onProgress # Undefined
                    THEN Append(calls, OnProgressCall(i, trialsToRun, best))
                    ELSE calls
        /\ errorLog' = IF onProgress = "raises"
                       THEN Append(errorLog, [trial |-> i + 1, origin |-> "onProgress"])
                       ELSE errorLog
        /\ EndTrial(IF onProgress = "raises" THEN results ELSE Append(results, result),
                    allocated, setUp)
  /\ fits' = fits \o FitEnds(FinalFit, "resolved")
  /\ UNCHANGED <<args, fnVars, configurations, trialsToRun>>

\* The final fit resolves (lines 443-469): the result is pushed, the best
\* updated and onProgress, when supplied, called; a callback that raises is
\* caught at line 471.  Then the loop goes on.
TrialCompletes(setUp) ==
  /\ pc = "final.fit"
  /\ Scripted => ~ScriptFinalRaises(i) /\ setUp = "reached"
  /\ LET config == configurations[i + 1]
         cv == CvResults(totalAccuracy, totalLoss, autoMLConfig.crossValidationFolds)
         result == MakeResult(i + 1, config, cv, FitHistory(config))
         best == UpdateBest(bestResult, result)
     IN /\ bestResult' = best
        /\ calls' = IF onProgress # Undefined
                    THEN Append(calls, OnProgressCall(i, trialsToRun, best))
                    ELSE calls
        /\ errorLog' = IF onProgress = "raises"
                       THEN Append(errorLog, [trial |-> i + 1, origin |-> "onProgress"])
                       ELSE errorLog
        /\ EndTrial(Append(results, result), allocated, setUp)
  /\ fits' = fits \o FitEnds(FinalFit, "resolved")
  /\ UNCHANGED <<args, fnVars, configurations, trialsToRun>>

Next ==
  \/ \E setUp \in FoldSetUps : RunAutoML(setUp)
  \/ FoldModelCreated
  \/ \E ev \in FoldEvaluations : FoldFitResolves(ev)
  \/ LossRead
  \/ \E setUp \in FoldSetUps : FoldCompletes(setUp)
  \/ \E origin \in FoldRaiseOrigins : FoldRaises(origin)
  \/ \E setUp \in FoldSetUps : CrossValidateRejected(setUp)
  \/ \E creation \in FinalCreations : CrossValidateResolved(creation)
  \/ FinalModelCreated
  \/ \E origin \in FinalRaiseOrigins, setUp \in FoldSetUps : FinalFitRaises(origin, setUp)
  \/ \E setUp \in FoldSetUps : TrialCompletes(setUp)

Spec == Init /\ [][Next]_vars

(***************************************************************************)
(* The pure functions, each followed through one call on inputs of its own.*)
(***************************************************************************)
runVars == <<pc, features, baseConfig, autoMLConfig, onProgress, configurations, results, bestResult, trialsToRun, i, fold, totalAccuracy, totalLoss, cvFolds, evaluation, rejection, calls, errorLog, allocated, fits>>

\* runAutoML is not called
NoRun ==
  /\ pc = "idle"
  /\ features = [rows |-> 1]
  /\ baseConfig = PageConfig
  /\ autoMLConfig = [maxTrials |-> 0, validationSplit |-> 2, earlyStoppingPatience |-> 5, crossValidationFolds |-> 2]
  /\ onProgress = Undefined
  /\ configurations = <<>>
  /\ results = <<>>
  /\ bestResult = <<>>
  /\ trialsToRun = 0
  /\ i = 0
  /\ fold = 0
  /\ totalAccuracy = 0
  /\ totalLoss = 0
  /\ cvFolds = <<>>
  /\ evaluation = <<>>
  /\ rejection = <<>>
  /\ calls = <<>>
  /\ errorLog = <<>>
  /\ allocated = {}
  /\ fits = <<>>

InitSplit ==
  /\ NoRun
  /\ processedData \in Datasets
  /\ targetVariable \in TargetNames
  /\ split = <<>>
  /\ modelArgs = [inputFeatures |-> 1, config |-> PageConfig]
  /\ built = <<>>
  /\ firstRun = <<>>
  /\ PageMounted

\* const { features, target } = splitFeatureTarget(processedData,
\* modelConfig.targetVariable)                            (page.tsx:76)
SplitFeatureTarget ==
  /\ split = <<>>
  /\ split' = <<splitFeatureTarget(processedData, targetVariable)>>
  /\ UNCHANGED <<runVars, processedData, targetVariable, modelArgs, built, firstRun, pageVars>>

NextSplit == SplitFeatureTarget

SpecSplit == InitSplit /\ [][NextSplit]_vars

InitCreateModel ==
  /\ NoRun
  /\ processedData = [tensor |-> Matrix(1, 1), features |-> <<"target">>]
  /\ targetVariable = "target"
  /\ split = <<>>
  /\ modelArgs \in CreateModelArgs
  /\ built = <<>>
  /\ firstRun = <<>>
  /\ PageMounted

\* await createModel(inputFeatures, config)
CreateModel ==
  /\ built = <<>>
  /\ built' = <<createModel(modelArgs.inputFeatures, modelArgs.config)>>
  /\ UNCHANGED <<runVars, processedData, targetVariable, split, modelArgs, firstRun, pageVars>>

NextCreateModel == CreateModel

SpecCreateModel == InitCreateModel /\ [][NextCreateModel]_vars

(***************************************************************************)
(* runAutoML invoked twice with the same arguments but for the             *)
(* validationSplit and earlyStoppingPatience of autoMLConfig, every fit    *)
(* and evaluation of the second invocation ending as in the first.         *)
(***************************************************************************)
\* the values tried for the two fields: validationSplit in tenths
KnobChoices == [validationSplit : {1, 2, 3}, earlyStoppingPatience : {1, 5}]

WithKnobs(amc, knobs) ==
  [amc EXCEPT !.validationSplit = knobs.validationSplit,
              !.earlyStoppingPatience = knobs.earlyStoppingPatience]

InitKnobs ==
  /\ pc = "idle"
  /\ features = [rows |-> MaxN]
  /\ baseConfig \in {PageConfig, CustomConfig}
  /\ autoMLConfig \in [maxTrials : {MaxConfigurations}, validationSplit : {2, 3}, earlyStoppingPatience : {5}, crossValidationFolds : 2..MaxFolds]
  /\ onProgress \in {"returns", "raises"}
  /\ configurations = <<>>
  /\ results = <<>>
  /\ bestResult = <<>>
  /\ trialsToRun = 0
  /\ i = 0
  /\ fold = 0
  /\ totalAccuracy = 0
  /\ totalLoss = 0
  /\ cvFolds = <<>>
  /\ evaluation = <<>>
  /\ rejection = <<>>
  /\ calls = <<>>
  /\ errorLog = <<>>
  /\ allocated = {}
  /\ fits = <<>>
  /\ NoCall

\* The first invocation has returned; runAutoML is invoked again with the
\* two fields changed.  The logs of the model are kept per invocation.
RunAgain ==
  /\ pc = "done"
  /\ firstRun = <<>>
  /\ firstRun' = <<[autoMLConfig |-> autoMLConfig, fits |-> fits, calls |-> calls, errorLog |-> errorLog, results |-> results]>>
  /\ \E knobs \in KnobChoices :
       /\ WithKnobs(autoMLConfig, knobs) # autoMLConfig
       /\ autoMLConfig' = WithKnobs(autoMLConfig, knobs)
  /\ pc' = "idle"
  /\ configurations' = <<>>
  /\ results' = <<>>
  /\ bestResult' = <<>>
  /\ trialsToRun' = 0
  /\ i' = 0
  /\ fold' = 0
  /\ totalAccuracy' = 0
  /\ totalLoss' = 0
  /\ cvFolds' = <<>>
  /\ evaluation' = <<>>
  /\ rejection' = <<>>
  /\ calls' = <<>>
  /\ errorLog' = <<>>
  /\ allocated' = {}
  /\ fits' = <<>>
  /\ UNCHANGED <<features, baseConfig, onProgress, processedData, targetVariable, split, modelArgs, built, pageVars>>

NextKnobs ==
  \/ Next
  \/ RunAgain

SpecKnobs == InitKnobs /\ [][NextKnobs]_vars

(***************************************************************************)
(* The page (page.tsx): Home's state, the user's actions and the           *)
(* invocations of handleFileUploaded, which suspend at the await of        *)
(* preprocessData, and of handleTrainingStart, which suspend at that of    *)
(* runAutoML, createModel or trainModel while the user goes on acting.     *)
(* runAutoML is seen from its caller: it calls onProgress and later         *)
(* resolves to a leaderboard; it does not reject (its trials' raises are    *)
(* caught at ml-utils.ts:471).                                             *)
(***************************************************************************)
\* at most this many invocations of handleTrainingStart are followed at once
MaxInFlight == 2

\* processedData is null (page.tsx:29)
NoProcessedData == [tensor |-> <<>>, features |-> <<>>]

\* at most this many invocations of handleFileUploaded are followed at once
MaxPendingUploads == 2

\* the files preprocessData resolves for (ml-utils.ts:41-48)
ReadableFiles == {"labelled.csv", "unlabelled.csv"}

\* what preprocessData resolves to for a readable file (ml-utils.ts:41-48)
preprocessData(file) ==
  [tensor |-> Matrix(MaxRows, 2),
   features |-> IF file = "labelled.csv" THEN <<"a", "target">> ELSE <<"a", "b">>]

\* the invocations of handleFileUploaded suspended at preprocessData
PendingTotal ==
  pendingUploads["labelled.csv"] + pendingUploads["unlabelled.csv"] + pendingUploads["unreadable.csv"]

\* a ModelResult of runAutoML as the page receives it
PageResult ==
  LET config == MakeConfiguration(PageConfig, "simple", 1, 16, 0, "adam", "relu", <<32>>)
  IN MakeResult(1, config, CvResults(2, 1, 2), FitHistory(config))

\* what runAutoML resolves to: the empty leaderboard (every trial raised)
\* or a sorted non-empty one
PageLeaderboards == {<<>>, <<PageResult>>}

\* the model createModel resolves to in manual training (page.tsx:113)
ManualModel == [name |-> "manual"]

\* the number of suspended invocations of handleTrainingStart
InFlightTotal == inFlight["runAutoML"] + inFlight["createModel"] + inFlight["trainModel"]

\* the setup card of step 1 is rendered (page.tsx:221)
SetupShown == activeStep = 1 /\ processedData # NoProcessedData

\* disabled of the Start AutoML button (MLStudioAutoML, upload.tsx:300)
StartAutoMLDisabled == targetVariable = Undefined \/ isAutoMLRunning

\* disabled of the Start Training button (training.tsx:101)
StartTrainingDisabled == targetVariable = Undefined

\* what the AutoMLResults component renders (automl-results.tsx:16-25)
AutoMLResults(leaderboard) ==
  IF Len(leaderboard) = 0 THEN "No AutoML results available" ELSE "leaderboard"

\* what the page renders below the step bar at step 3 (page.tsx:257-269);
\* "hidden" at the other steps
ResultsStep ==
  IF activeStep # 3 THEN "hidden"
  ELSE IF isAutoMLMode /\ Len(autoMLResults) > 0 THEN AutoMLResults(autoMLResults)
  ELSE IF pageModel # <<>> THEN "MLStudioResults"
  ELSE "nothing"

InitPage ==
  /\ NoRun
  /\ processedData = NoProcessedData
  /\ targetVariable = Undefined
  /\ split = <<>>
  /\ modelArgs = [inputFeatures |-> 1, config |-> PageConfig]
  /\ built = <<>>
  /\ firstRun = <<>>
  /\ PageMounted

\* handleFileUploaded up to its await (page.tsx:61-63), from a drop of
\* file on the upload card, which the page shows at step 0 (page.tsx:
\* 218-220): the invocation suspends at preprocessData
HandleFileUploaded(file) ==
  /\ activeStep = 0
  /\ PendingTotal < MaxPendingUploads
  /\ pendingUploads' = [pendingUploads EXCEPT ![file] = @ + 1]
  /\ UNCHANGED <<runVars, processedData, targetVariable, split, modelArgs, built, firstRun, activeStep, isAutoMLMode, isAutoMLRunning, autoMLResults, pageModel, autoMLProgress, currentTrial, pageBestResult, trainingMetrics, inFlight>>

\* preprocessData(file) resolves and the invocation of handleFileUploaded
\* that awaits it runs to its end (page.tsx:63-65), whatever the user has
\* done since the drop
PreprocessDataResolves(file) ==
  /\ pendingUploads[file] > 0
  /\ file \in ReadableFiles
  /\ pendingUploads' = [pendingUploads EXCEPT ![file] = @ - 1]
  /\ processedData' = preprocessData(file)
  /\ activeStep' = 1
  /\ UNCHANGED <<runVars, targetVariable, split, modelArgs, built, firstRun, isAutoMLMode, isAutoMLRunning, autoMLResults, pageModel, autoMLProgress, currentTrial, pageBestResult, trainingMetrics, inFlight>>

\* preprocessData(file) rejects: the catch of page.tsx:66-68 logs and the
\* page stays as it is
PreprocessDataRejects(file) ==
  /\ pendingUploads[file] > 0
  /\ file \notin ReadableFiles
  /\ pendingUploads' = [pendingUploads EXCEPT ![file] = @ - 1]
  /\ UNCHANGED <<runVars, processedData, targetVariable, split, modelArgs, built, firstRun, activeStep, isAutoMLMode, isAutoMLRunning, autoMLResults, pageModel, autoMLProgress, currentTrial, pageBestResult, trainingMetrics, inFlight>>

\* a click on a step of the step bar (page.tsx:200)
SetActiveStep(index) ==
  /\ activeStep' = index
  /\ UNCHANGED <<runVars, processedData, targetVariable, split, modelArgs, built, firstRun, isAutoMLMode, isAutoMLRunning, autoMLResults, pageModel, autoMLProgress, currentTrial, pageBestResult, trainingMetrics, inFlight, pendingUploads>>

\* a click on the mode button (page.tsx:154-163)
ToggleMode ==
  /\ isAutoMLMode' = ~isAutoMLMode
  /\ UNCHANGED <<runVars, processedData, targetVariable, split, modelArgs, built, firstRun, activeStep, isAutoMLRunning, autoMLResults, pageModel, autoMLProgress, currentTrial, pageBestResult, trainingMetrics, inFlight, pendingUploads>>

\* the target select of the setup card (training.tsx:40-56, upload.tsx:
\* 183-188): one of the dataset's columns; disabled in MLStudioAutoML while
\* isRunning
SelectTarget(value) ==
  /\ SetupShown
  /\ isAutoMLMode => ~isAutoMLRunning
  /\ value \in Range(processedData.features)
  /\ targetVariable' = value
  /\ UNCHANGED <<runVars, processedData, split, modelArgs, built, firstRun, pageVars>>

\* handleTrainingStart up to its first await (page.tsx:71-116), from a click
\* on the Start button of the setup card shown: splitFeatureTarget raising
\* goes to the catch of lines 132-135; in AutoML mode the invocation
\* suspends at runAutoML, in manual mode at createModel.
HandleTrainingStart ==
  /\ SetupShown
  /\ IF isAutoMLMode THEN ~StartAutoMLDisabled ELSE ~StartTrainingDisabled
  /\ processedData # NoProcessedData /\ targetVariable # Undefined
  /\ InFlightTotal < MaxInFlight
  /\ activeStep' = 2
  /\ IF splitFeatureTarget(processedData, targetVariable).raised
     THEN /\ isAutoMLRunning' = FALSE
          /\ UNCHANGED <<autoMLProgress, currentTrial, pageBestResult, inFlight>>
     ELSE IF isAutoMLMode
     THEN /\ isAutoMLRunning' = TRUE
          /\ autoMLProgress' = Quot(0, 1)
          /\ currentTrial' = 0
          /\ pageBestResult' = <<>>
          /\ inFlight' = [inFlight EXCEPT !["runAutoML"] = @ + 1]
     ELSE /\ inFlight' = [inFlight EXCEPT !["createModel"] = @ + 1]
          /\ UNCHANGED <<isAutoMLRunning, autoMLProgress, currentTrial, pageBestResult>>
  /\ UNCHANGED <<runVars, processedData, targetVariable, split, modelArgs, built, firstRun, isAutoMLMode, autoMLResults, pageModel, trainingMetrics, pendingUploads>>

\* the callback handed to runAutoML (page.tsx:97-103), called by a run in
\* flight
OnProgress(call) ==
  /\ inFlight["runAutoML"] > 0
  /\ autoMLProgress' = call.progress
  /\ currentTrial' = call.currentTrial
  /\ pageBestResult' = IF call.bestResult # <<>> THEN call.bestResult ELSE pageBestResult
  /\ UNCHANGED <<runVars, processedData, targetVariable, split, modelArgs, built, firstRun, activeStep, isAutoMLMode, isAutoMLRunning, autoMLResults, pageModel, trainingMetrics, inFlight, pendingUploads>>

\* runAutoML resolves to leaderboard and handleTrainingStart runs to its end
\* (page.tsx:106-111 and 130)
RunAutoMLResolves(leaderboard) ==
  /\ inFlight["runAutoML"] > 0
  /\ inFlight' = [inFlight EXCEPT !["runAutoML"] = @ - 1]
  /\ autoMLResults' = leaderboard
  /\ isAutoMLRunning' = FALSE
  /\ pageModel' = IF Len(leaderboard) > 0 THEN <<leaderboard[1].model>> ELSE pageModel
  /\ activeStep' = 3
  /\ UNCHANGED <<runVars, processedData, targetVariable, split, modelArgs, built, firstRun, isAutoMLMode, autoMLProgress, currentTrial, pageBestResult, trainingMetrics, pendingUploads>>

\* createModel resolves in manual training: setModel, then the invocation
\* suspends at trainModel (page.tsx:113-116)
CreateModelResolves ==
  /\ inFlight["createModel"] > 0
  /\ inFlight' = [inFlight EXCEPT !["createModel"] = @ - 1, !["trainModel"] = @ + 1]
  /\ pageModel' = <<ManualModel>>
  /\ UNCHANGED <<runVars, processedData, targetVariable, split, modelArgs, built, firstRun, activeStep, isAutoMLMode, isAutoMLRunning, autoMLResults, autoMLProgress, currentTrial, pageBestResult, trainingMetrics, pendingUploads>>

\* the onEpochEnd callback of manual training (page.tsx:121-127)
EpochEnd(epoch, logs) ==
  /\ inFlight["trainModel"] > 0
  /\ trainingMetrics' = [currentEpoch |-> epoch + 1, loss |-> logs.loss, accuracy |-> logs.acc]
  /\ UNCHANGED <<runVars, processedData, targetVariable, split, modelArgs, built, firstRun, activeStep, isAutoMLMode, isAutoMLRunning, autoMLResults, pageModel, autoMLProgress, currentTrial, pageBestResult, inFlight, pendingUploads>>

\* trainModel resolves in manual training (page.tsx:116-130)
TrainModelResolves ==
  /\ inFlight["trainModel"] > 0
  /\ inFlight' = [inFlight EXCEPT !["trainModel"] = @ - 1]
  /\ activeStep' = 3
  /\ UNCHANGED <<runVars, processedData, targetVariable, split, modelArgs, built, firstRun, isAutoMLMode, isAutoMLRunning, autoMLResults, pageModel, autoMLProgress, currentTrial, pageBestResult, trainingMetrics, pendingUploads>>

\* createModel or trainModel rejects in manual training: the catch of
\* page.tsx:132-135
ManualTrainingRaises(awaited) ==
  /\ awaited \in {"createModel", "trainModel"}
  /\ inFlight[awaited] > 0
  /\ inFlight' = [inFlight EXCEPT ![awaited] = @ - 1]
  /\ isAutoMLRunning' = FALSE
  /\ UNCHANGED <<runVars, processedData, targetVariable, split, modelArgs, built, firstRun, activeStep, isAutoMLMode, autoMLResults, pageModel, autoMLProgress, currentTrial, pageBestResult, trainingMetrics, pendingUploads>>

\* handleModelSelect (page.tsx:138-141), from the leaderboard shown at step 3
HandleModelSelect(result) ==
  /\ ResultsStep = "leaderboard"
  /\ result \in Range(autoMLResults)
  /\ pageModel' = <<result.model>>
  /\ UNCHANGED <<runVars, processedData, targetVariable, split, modelArgs, built, firstRun, activeStep, isAutoMLMode, isAutoMLRunning, autoMLResults, autoMLProgress, currentTrial, pageBestResult, trainingMetrics, inFlight, pendingUploads>>

NextPage ==
  \/ \E file \in PageFiles : HandleFileUploaded(file)
  \/ \E file \in PageFiles : PreprocessDataResolves(file)
  \/ \E file \in PageFiles : PreprocessDataRejects(file)
  \/ \E index \in 0..3 : SetActiveStep(index)
  \/ ToggleMode
  \/ \E value \in ColumnNames : SelectTarget(value)
  \/ HandleTrainingStart
  \/ \E best \in {<<>>, <<PageResult>>} : OnProgress(OnProgressCall(0, 1, best))
  \/ \E leaderboard \in PageLeaderboards : RunAutoMLResolves(leaderboard)
  \/ CreateModelResolves
  \/ EpochEnd(0, [loss |-> 1, acc |-> 1])
  \/ TrainModelResolves
  \/ \E awaited \in {"createModel", "trainModel"} : ManualTrainingRaises(awaited)
  \/ HandleModelSelect(PageResult)

SpecPage == InitPage /\ [][NextPage]_vars

(***************************************************************************)
(* Properties.                                                             *)
(***************************************************************************)
Called == pc # "idle"

\* a trial is in progress
InTrial == pc \notin {"idle", "done"}

\* crossValidate is suspended inside a fold
InFold == pc \in {"cv", "cv.fit", "cv.loss", "cv.accuracy"}

\* crossValidate has returned to the trial, which goes on to its final fit
CvReturned == pc \in {"cv.resolved", "final", "final.fit"}

\* after a step that ends trial i the loop is at the first await of trial
\* i + 1, or at the await of its crossValidate call when the set-up of its
\* first fold raised, or runAutoML has returned after the last trial
LoopGoesOn ==
  IF i + 1 < trialsToRun THEN pc' \in {"cv", "cv.rejected"} ELSE pc' = "done"

\* the trials whose cross-validation or final fit raised
RaisedTrials == {e.trial : e \in {x \in Range(errorLog) : x.origin # "onProgress"}}

\* the trials that have a ModelResult in results
ResultTrials == {r.model.trial : r \in Range(results)}

\* the swept values of the n-th (0-based) element of the Cartesian product,
\* hiddenLayers varying fastest and modelType slowest
NthCombination(n) ==
  [hiddenLayers |-> hiddenLayerConfigs[(n % 4) + 1],
   activation |-> activations[((n \div 4) % 3) + 1],
   optimizer |-> optimizers[((n \div 12) % 3) + 1],
   dropoutRate |-> dropoutRates[((n \div 36) % 4) + 1],
   batchSize |-> batchSizes[((n \div 144) % 3) + 1],
   learningRate |-> learningRates[((n \div 432) % 3) + 1],
   modelType |-> modelTypes[((n \div 1296) % 4) + 1]]

SweptValues(c) ==
  [hiddenLayers |-> c.hiddenLayers, activation |-> c.activation, optimizer |-> c.optimizer,
   dropoutRate |-> c.dropoutRate, batchSize |-> c.batchSize, learningRate |-> c.learningRate,
   modelType |-> c.modelType]

\* C1: generateModelConfigurations returns exactly 50 configurations, the
\* n-th carrying the swept values of the n-th element of the Cartesian
\* product in the nesting order modelType, learningRate, batchSize,
\* dropoutRate, optimizer, activation, hiddenLayers (innermost).
C1_First50InNestedOrder ==
  Called =>
    /\ Len(configurations) = 50
    /\ \A n \in 1..Len(configurations) : SweptValues(configurations[n]) = NthCombination(n - 1)

\* C1 witness: a call has returned 50 configurations and the enumeration has
\* passed the two innermost loops and one step of the dropout loop
C1_Witness ==
  /\ Called
  /\ Len(configurations) = 50
  /\ configurations[50].dropoutRate = 1
  /\ configurations[50].optimizer = "sgd"
  /\ configurations[50].hiddenLayers = <<64, 32>>

\* C2 (state part): every generated configuration has epochs
\* min(baseConfig.epochs, 20), baseConfig's targetVariable, and its seven
\* swept fields taken from the sweep lists whatever baseConfig sets.
C2_ConfigurationFields ==
  Called =>
    \A n \in 1..Len(configurations) :
      LET c == configurations[n]
      IN /\ c.epochs = (IF baseConfig.epochs <= 20 THEN baseConfig.epochs ELSE 20)
         /\ c.targetVariable = baseConfig.targetVariable
         /\ c.modelType \in Range(modelTypes)
         /\ c.learningRate \in Range(learningRates)
         /\ c.batchSize \in Range(batchSizes)
         /\ c.dropoutRate \in Range(dropoutRates)
         /\ c.optimizer \in Range(optimizers)
         /\ c.activation \in Range(activations)
         /\ c.hiddenLayers \in Range(hiddenLayerConfigs)

\* C2: the fields of every generated configuration are as C2_ConfigurationFields
\* says, and no step of the run modifies baseConfig.
C2_CopiesBaseOverridesSweep ==
  /\ []C2_ConfigurationFields
  /\ [][baseConfig' = baseConfig]_vars

\* C2 witness: configurations generated from a base config that sets every
\* swept field to a value outside the sweep lists and epochs above the cap
C2_Witness ==
  /\ Called
  /\ baseConfig = CustomConfig
  /\ configurations[1].modelType = "simple"
  /\ configurations[1].epochs = 20
  /\ configurations[1].targetVariable = "label"

\* C3: trialsToRun is min(number of configurations, maxTrials); the trial in
\* progress is always one of the first trialsToRun; when runAutoML returns,
\* each of the trials 1..trialsToRun has been attempted exactly once (it has
\* one result, built from the configuration at its position, or one logged
\* raise) and no other; with maxTrials 0 nothing runs, nothing is reported
\* and the leaderboard is empty.
C3_ExactlyTrialsToRunTrials ==
  /\ Called => trialsToRun = (IF autoMLConfig.maxTrials <= Len(configurations)
                              THEN autoMLConfig.maxTrials ELSE Len(configurations))
  /\ InTrial => i < trialsToRun
  /\ Called => /\ \A r \in Range(results) : r.config = configurations[r.model.trial]
               /\ Cardinality(ResultTrials) = Len(results)
               /\ Cardinality(RaisedTrials) = Cardinality({k \in 1..Len(errorLog) : errorLog[k].origin # "onProgress"})
               /\ ResultTrials \cap RaisedTrials = {}
               /\ ResultTrials \cup RaisedTrials = 1..(IF pc = "done" THEN trialsToRun ELSE i)
  /\ (Called /\ autoMLConfig.maxTrials = 0) =>
       pc = "done" /\ results = <<>> /\ calls = <<>> /\ errorLog = <<>>

\* C3 witness: a run whose maxTrials exceeds the number of configurations
\* has returned after attempting all 50, some of them raising
C3_Witness ==
  /\ pc = "done"
  /\ autoMLConfig.maxTrials = 51
  /\ trialsToRun = 50
  /\ RaisedTrials # {}
  /\ ResultTrials \cup RaisedTrials = 1..50

SortedDescending(rs) ==
  \A k \in 1..(Len(rs) - 1) :
    QGeq(rs[k].metrics.accuracy, rs[k + 1].metrics.accuracy)

\* the results a step adds
NewResults == Range(results') \ Range(results)

\* C4 (the returning step): the leaderboard holds every result collected
\* before the step and at most one more, the result of the trial that just
\* succeeded with its cross-validated accuracy, each once.
C4_ReturnPermutes ==
  (pc # "done" /\ pc' = "done") =>
    /\ Range(results) \subseteq Range(results')
    /\ Len(results') = Cardinality(Range(results'))
    /\ Len(results') = Len(results) + Cardinality(NewResults)
    /\ Cardinality(NewResults) <= 1
    /\ \A r \in NewResults :
         /\ pc = "final.fit"
         /\ r.model.trial = i + 1
         /\ r.metrics.accuracy = Quot(totalAccuracy, autoMLConfig.crossValidationFolds)

\* C4: the returned leaderboard is a permutation of the collected results and
\* is sorted descending by metrics.accuracy.
C4_LeaderboardSortedPermutation ==
  /\ [](pc = "done" => SortedDescending(results))
  /\ [](pc = "done" => ResultTrials = (1..trialsToRun) \ RaisedTrials)
  /\ [][C4_ReturnPermutes]_vars

\* C4 witness: a returned leaderboard of three or more results in which the
\* sort moved a later trial ahead of an earlier one, ties are present and a
\* trial was skipped
C4_Witness ==
  /\ pc = "done"
  /\ Len(results) >= 3
  /\ RaisedTrials # {}
  /\ \E j, k \in 1..Len(results) : j < k /\ results[j].model.trial > results[k].model.trial
  /\ \E j, k \in 1..Len(results) : j # k /\ QEq(results[j].metrics.accuracy, results[k].metrics.accuracy)

\* C5 (a raising step): a raise in cross-validation or in the final fit adds
\* no result and does not end the run early: the loop moves to the next
\* configuration, or returns when that was the last one.
C5_RaiseIsSkipped ==
  (Len(errorLog') > Len(errorLog) /\ errorLog'[Len(errorLog')].origin # "onProgress") =>
    /\ NewResults = {}
    /\ Len(results') = Len(results)
    /\ bestResult' = bestResult
    /\ i' = i + 1
    /\ LoopGoesOn

\* C5: a trial that raises produces no result and the loop continues; when
\* runAutoML returns, all trialsToRun trials were attempted and the number of
\* results equals the number of trials that did not raise.
C5_RaisingTrialsSkipped ==
  /\ [][C5_RaiseIsSkipped]_vars
  /\ [](pc = "done" => /\ i = trialsToRun
                       /\ ResultTrials \cup RaisedTrials = 1..trialsToRun
                       /\ Len(results) = trialsToRun - Cardinality(RaisedTrials))

\* C5 witness: a run that returned with a raise in cross-validation, a raise
\* in a final fit and a successful trial after a raising one
C5_Witness ==
  /\ pc = "done"
  /\ \E e \in Range(errorLog) : e.origin \in FoldRaiseOrigins
  /\ \E e \in Range(errorLog) : e.origin \in FinalRaiseOrigins
  /\ \E t \in RaisedTrials, u \in ResultTrials : t < u

\* C6: if every trial of a run has raised during training, the leaderboard is
\* empty, runAutoML has returned without raising, and no onProgress call
\* received a defined bestResult.
C6_AllTrialsRaise ==
  (Called /\ i >= trialsToRun /\ RaisedTrials = 1..trialsToRun) =>
    /\ pc = "done"
    /\ results = <<>>
    /\ bestResult = <<>>
    /\ \A k \in 1..Len(calls) : calls[k].bestResult = <<>>

\* C6 witness: a run of two trials, with onProgress supplied, has returned
\* after both trials raised, one in cross-validation and one in the final fit
C6_Witness ==
  /\ pc = "done"
  /\ onProgress # Undefined
  /\ trialsToRun = 2
  /\ RaisedTrials = {1, 2}
  /\ \E e \in Range(errorLog) : e.origin \in FoldRaiseOrigins
  /\ \E e \in Range(errorLog) : e.origin \in FinalRaiseOrigins

\* C7: onProgress is invoked at most maxTrials times and the percent
\* argument is non-decreasing across the calls of a run.
C7_ProgressBoundedMonotone ==
  /\ Len(calls) <= autoMLConfig.maxTrials
  /\ \A j, k \in 1..Len(calls) : j < k => QGeq(calls[k].progress, calls[j].progress)

\* C7 witness: a run with skipped trials between reported ones has made
\* several onProgress calls
C7_Witness ==
  /\ pc = "done"
  /\ Len(calls) >= 3
  /\ \E k \in 1..(Len(calls) - 1) : calls[k + 1].currentTrial > calls[k].currentTrial + 1

\* C8 (as claimed): in every run with onProgress supplied and at least one
\* trial attempted, the last onProgress call has percent = 100.
C8_LastCallIs100 ==
  (pc = "done" /\ onProgress # Undefined /\ trialsToRun >= 1) =>
    /\ calls # <<>>
    /\ QEq(calls[Len(calls)].progress, Quot(100, 1))

\* a step that replaces the best-so-far result
BestChanges == bestResult' # bestResult

\* C9 (best update): the best changes only in the step that ends a
\* successful trial, to the result that step adds, and only when there was
\* no best or the new accuracy is strictly greater.
C9_BestUpdate ==
  BestChanges =>
    /\ pc = "final.fit"
    /\ bestResult' # <<>>
    /\ NewResults = {bestResult'[1]}
    /\ bestResult = <<>> \/ QGreater(bestResult'[1].metrics.accuracy, bestResult[1].metrics.accuracy)

\* C9 (progress call): the bestResult passed to onProgress is one of the
\* results collected so far and no collected result has a greater accuracy.
C9_CallPassesBest ==
  Len(calls') > Len(calls) =>
    LET c == calls'[Len(calls')]
    IN /\ c.bestResult # <<>>
       /\ c.bestResult = bestResult'
       /\ c.bestResult[1] \in Range(results')
       /\ \A r \in Range(results') : QGeq(c.bestResult[1].metrics.accuracy, r.metrics.accuracy)

\* C9: the best-so-far result changes only at the end of a successful trial,
\* on no best yet or a strictly greater accuracy, and every onProgress call
\* passes a collected result of maximal accuracy.
C9_BestSoFar ==
  /\ [][C9_BestUpdate]_vars
  /\ [][C9_CallPassesBest]_vars

\* C9 witness: the calls made so far include one that passed a new, better
\* best and one made after a trial that tied with the best and did not
\* replace it
C9_Witness ==
  /\ \E k \in 1..(Len(calls) - 1) : calls[k + 1].bestResult # calls[k].bestResult
  /\ \E k \in 1..(Len(calls) - 1) :
       /\ calls[k + 1].bestResult = calls[k].bestResult
       /\ \E r \in Range(results) :
            /\ r.model.trial = calls[k + 1].currentTrial
            /\ QEq(r.metrics.accuracy, calls[k].bestResult[1].metrics.accuracy)

\* the fold f (0-based) validates on the rows lo .. hi - 1
ValidatesOn(entry, lo, hi) ==
  /\ entry.startIdx = lo
  /\ entry.endIdx = hi
  /\ Len(entry.valIndices) = hi - lo
  /\ \A k \in 1..(hi - lo) : entry.valIndices[k] = lo + k - 1

\* C10: with N samples and 2 <= k <= N folds, fold f < k-1 validates on
\* [f*floor(N/k), (f+1)*floor(N/k)), the last fold on [(k-1)*floor(N/k), N),
\* and once crossValidate has run its k folds every sample index of [0, N)
\* is in exactly one validation block.
C10_ValidationBlocksPartition ==
  LET N == features.rows
      k == autoMLConfig.crossValidationFolds
  IN (2 <= k /\ k <= N) =>
       /\ \A f \in 0..(Len(cvFolds) - 1) :
            ValidatesOn(cvFolds[f + 1], f * (N \div k), IF f < k - 1 THEN (f + 1) * (N \div k) ELSE N)
       /\ CvReturned =>
            /\ Len(cvFolds) = k
            /\ \A idx \in 0..(N - 1) :
                 Cardinality({f \in 1..k : idx \in Range(cvFolds[f].valIndices)}) = 1
            /\ \A f \in 1..k : Range(cvFolds[f].valIndices) \subseteq 0..(N - 1)

\* C10 witness: crossValidate has run all folds on a dataset whose size is
\* not a multiple of the fold count, the last fold absorbing the remainder
C10_Witness ==
  /\ CvReturned
  /\ features.rows = 5
  /\ autoMLConfig.crossValidationFolds = 3
  /\ Len(cvFolds) = 3
  /\ cvFolds[3].valIndices = <<2, 3, 4>>

\* the index list is strictly ascending
StrictlyAscending(seq) == \A a, b \in 1..Len(seq) : a < b => seq[a] < seq[b]

\* C11: in every fold crossValidate enters, the training indices are the
\* complement of the fold's validation block within [0, N), in original
\* (ascending) order: disjoint from the block, together with it covering all
\* N samples, and holding no index of [startIdx, endIdx).
C11_TrainingIsComplement ==
  \A f \in 1..Len(cvFolds) :
    LET entry == cvFolds[f]
        N == features.rows
    IN /\ StrictlyAscending(entry.trainIndices)
       /\ Range(entry.trainIndices) \cap Range(entry.valIndices) = {}
       /\ Range(entry.trainIndices) \cup Range(entry.valIndices) = 0..(N - 1)
       /\ Len(entry.trainIndices) + Len(entry.valIndices) = N
       /\ \A idx \in Range(entry.trainIndices) : idx < entry.startIdx \/ idx >= entry.endIdx

\* C11 witness: a middle fold of a 5-sample, 3-fold cross-validation has
\* trained on the samples before and after its validation block
C11_Witness ==
  /\ features.rows = 5
  /\ autoMLConfig.crossValidationFolds = 3
  /\ Len(cvFolds) >= 2
  /\ cvFolds[2].evaluated
  /\ cvFolds[2].valIndices = <<1>>
  /\ cvFolds[2].trainIndices = <<0, 2, 3, 4>>

\* the sum of the field of the per-fold evaluations of the folds entered
RECURSIVE SumEvaluations(_, _)
SumEvaluations(entries, field) ==
  IF entries = <<>> THEN 0
  ELSE entries[1].evaluation[1][field] + SumEvaluations(Tail(entries), field)

\* C12: when no fold raises, crossValidate with folds = k has trained and
\* evaluated exactly k models, one new model per fold, and the accuracy and
\* loss it returns, which the trial's ModelResult carries, are the sums of
\* the k per-fold evaluation values divided by k.
C12_AveragesKFolds ==
  /\ [](CvReturned =>
         LET k == autoMLConfig.crossValidationFolds
             cv == CvResults(totalAccuracy, totalLoss, k)
         IN /\ Len(cvFolds) = k
            /\ \A f \in 1..k :
                 /\ cvFolds[f].evaluated
                 /\ cvFolds[f].model = <<FoldModel(i + 1, f - 1)>>
            /\ Cardinality({cvFolds[f].model : f \in 1..k}) = k
            /\ cv.accuracy.den = k /\ cv.loss.den = k
            /\ cv.accuracy.num = SumEvaluations(cvFolds, "accuracy")
            /\ cv.loss.num = SumEvaluations(cvFolds, "loss"))
  /\ [][\A r \in NewResults :
          LET k == autoMLConfig.crossValidationFolds
          IN /\ r.metrics.accuracy = Quot(SumEvaluations(cvFolds, "accuracy"), k)
             /\ r.metrics.loss = Quot(SumEvaluations(cvFolds, "loss"), k)]_vars

\* C12 witness: a 3-fold cross-validation of 5 samples (folds of sizes 1, 1
\* and 3) has returned with per-fold accuracies 2, 0, 0
C12_Witness ==
  /\ CvReturned
  /\ features.rows = 5
  /\ autoMLConfig.crossValidationFolds = 3
  /\ cvFolds[1].evaluation = <<[loss |-> 0, accuracy |-> 2]>>
  /\ cvFolds[2].evaluation = <<[loss |-> 1, accuracy |-> 0]>>
  /\ cvFolds[3].evaluation = <<[loss |-> 1, accuracy |-> 0]>>
  /\ totalAccuracy = 2
  /\ totalLoss = 2

\* the kinds of resource crossValidate creates inside a fold
FoldScopedKinds ==
  {"valFeatures", "valTarget", "trainFeatures", "trainTarget", "model", "evaluation[0]", "evaluation[1]"}

\* C13: every tensor and model allocated inside a cross-validation fold is
\* released by the end of that fold's iteration on every exit path: a
\* fold-scoped resource still allocated belongs to the fold in progress, and
\* after crossValidate has returned or raised none is allocated.
C13_FoldResourcesReleased ==
  \A r \in allocated :
    r.kind \in FoldScopedKinds => InFold /\ r.trial = i + 1 /\ r.fold = fold

\* the fit that starts at position q may follow the fit that ended at
\* position p = q - 1: it is the next fit of the same trial (the next fold
\* after a fold fit that resolved, the final fit after the last fold), or
\* the first fold of a later trial when the earlier fit's trial is over (its
\* final fit has resolved, or the trial raised) and every trial in between
\* raised without fitting
FollowsInOrder(p, q) ==
  LET a == fits[p]
      b == fits[q]
      k == autoMLConfig.crossValidationFolds
  IN \/ /\ b.fit.model.trial = a.fit.model.trial
        /\ a.at = "resolved"
        /\ a.fit.model.name = "fold"
        /\ IF a.fit.model.fold + 1 < k
           THEN b.fit.model = FoldModel(a.fit.model.trial, a.fit.model.fold + 1)
           ELSE b.fit.model = [name |-> "final", trial |-> a.fit.model.trial]
     \/ /\ b.fit.model.trial > a.fit.model.trial
        /\ b.fit.model = FoldModel(b.fit.model.trial, 0)
        /\ \/ a.fit.model.name = "final" /\ a.at = "resolved"
           \/ a.fit.model.trial \in RaisedTrials
        /\ \A t \in (a.fit.model.trial + 1)..(b.fit.model.trial - 1) : t \in RaisedTrials

\* the last 2 * (k + 1) events of trace are the k fold fits of the trial, in
\* fold order, and then its final fit, each started and resolved, and the
\* trial has no earlier fit
EndsWithFitsOfTrial(trace, trial) ==
  LET k == autoMLConfig.crossValidationFolds
      base == Len(trace) - 2 * (k + 1)
  IN /\ base >= 0
     /\ \A f \in 0..k :
          /\ trace[base + 2 * f + 1].at = "start"
          /\ trace[base + 2 * f + 2].at = "resolved"
          /\ trace[base + 2 * f + 1].fit = trace[base + 2 * f + 2].fit
          /\ trace[base + 2 * f + 1].fit.model =
               IF f < k THEN FoldModel(trial, f) ELSE [name |-> "final", trial |-> trial]
     /\ base > 0 => trace[base].fit.model.trial < trial

\* C14: within one runAutoML invocation the fits never overlap: every fit
\* that has started has ended before the next one starts, and a fit is
\* running only while its caller awaits it; the fold fits of a
\* trial run in fold order and have all resolved before its final fit
\* starts; a trial's first fit starts only after the previous trial's final
\* fit has resolved or that trial has raised; and a trial that yields a
\* result has performed exactly crossValidationFolds + 1 fits.
C14_FitsNeverOverlap ==
  /\ [](\A p \in 1..Len(fits) :
          /\ (fits[p].at = "start" /\ p < Len(fits)) =>
               /\ fits[p + 1].at \in {"resolved", "rejected"}
               /\ fits[p + 1].fit = fits[p].fit
          /\ (fits[p].at = "start" /\ p = Len(fits)) =>
               /\ pc \in {"cv.fit", "final.fit"}
               /\ fits[p].fit = (IF pc = "cv.fit" THEN FoldFit(fold) ELSE FinalFit)
          /\ fits[p].at # "start" =>
               /\ p > 1
               /\ fits[p - 1].at = "start"
               /\ p + 1 <= Len(fits) => fits[p + 1].at = "start" /\ FollowsInOrder(p, p + 1)
          /\ p = 1 => fits[p].fit.model.name = "fold" /\ fits[p].fit.model.fold = 0)
  /\ [](pc \in {"cv.fit", "final.fit"} => fits # <<>> /\ fits[Len(fits)].at = "start")
  /\ [][\A r \in NewResults : EndsWithFitsOfTrial(fits', r.model.trial)]_vars

\* C14 witness: a run whose first trial raised in its second fold and whose
\* second trial succeeded with two fold fits and a final fit
C14_Witness ==
  /\ pc = "done"
  /\ autoMLConfig.crossValidationFolds = 2
  /\ ResultTrials = {2}
  /\ Len(fits) = 10
  /\ fits[4].at = "rejected"
  /\ fits[4].fit.model = FoldModel(1, 1)
  /\ fits[5].fit.model = FoldModel(2, 0)
  /\ fits[10].fit.model = [name |-> "final", trial |-> 2]

\* the dataset has one column per column name
WellFormed(data) == \A r \in 1..Len(data.tensor) : Len(data.tensor[r]) = Len(data.features)

\* C15: for a dataset with column-name list C and a target name whose first
\* occurrence in C is at index t, splitFeatureTarget returns a feature
\* matrix of |C| - 1 columns, the original columns except column t in their
\* original order with the rows in their original order, and a target
\* vector whose r-th value is row r's value in column t.
C15_SplitsAtFirstOccurrence ==
  \A t \in 0..(Len(processedData.features) - 1) :
    (/\ split # <<>>
     /\ WellFormed(processedData)
     /\ processedData.features[t + 1] = targetVariable
     /\ \A j \in 1..t : processedData.features[j] # targetVariable)
    => LET out == split[1]
           rows == Len(processedData.tensor)
           width == Len(processedData.features)
       IN /\ ~out.raised
          /\ Len(out.features) = rows
          /\ Len(out.target) = rows
          /\ \A r \in 1..rows :
               /\ Len(out.features[r]) = width - 1
               /\ \A c \in 1..(width - 1) :
                    out.features[r][c] = processedData.tensor[r][IF c <= t THEN c ELSE c + 1]
               /\ out.target[r] = processedData.tensor[r][t + 1]

\* C15 witness: the target name occurs twice, first in the middle column of
\* a 2 x 3 dataset, and the call has returned
C15_Witness ==
  /\ split # <<>>
  /\ processedData.features = <<"a", "target", "target">>
  /\ targetVariable = "target"
  /\ processedData.tensor = <<<<11, 12, 13>>, <<21, 22, 23>>>>
  /\ split[1].features = <<<<11, 13>>, <<21, 23>>>>
  /\ split[1].target = <<12, 22>>

\* C16: called with a target name that is not in the column list,
\* splitFeatureTarget raises an error whose message names that column,
\* returns no features and no target, and has created no tensor.
C16_AbsentTargetRaises ==
  (split # <<>> /\ \A k \in 1..Len(processedData.features) : processedData.features[k] # targetVariable)
  => /\ split[1].raised
     /\ \E k \in 1..Len(split[1].message) : split[1].message[k] = targetVariable
     /\ split[1].features = <<>>
     /\ split[1].target = <<>>
     /\ split[1].tensorsCreated = 0

\* C16 witness: the call has raised for a name that differs from a column
\* name by case only
C16_Witness ==
  /\ split # <<>>
  /\ processedData.features = <<"a", "b", "target">>
  /\ targetVariable = "Target"
  /\ split[1].raised
  /\ split[1].message = <<"Target column \"", "Target", "\" not found in dataset">>

\* the number of dropout layers of a model
DropoutCount(m) == Cardinality({p \in 1..Len(m) : m[p].type = "dropout"})

\* layer is a dense layer of the given width and activation
IsDense(layer, units, activation) ==
  layer.type = "dense" /\ layer.units = units /\ layer.activation = activation

\* C17: createModel for modelType 'deep' with hiddenLayers h (absent:
\* [128, 64, 32]) and dropoutRate d builds, in order, one dense layer of
\* width h[j] for each j, each followed by one dropout layer exactly when
\* d > 0, then a single 1-unit sigmoid output layer; for modelType 'linear'
\* it builds exactly one layer, a 1-unit sigmoid dense layer, whatever the
\* rest of the config says.
C17_DeepAndLinearLayers ==
  built # <<>> =>
    LET cfg == modelArgs.config
        m == built[1]
        d == cfg.dropoutRate
        h == IF cfg.hiddenLayers = <<>> THEN <<128, 64, 32>> ELSE cfg.hiddenLayers
        act == IF cfg.activation = Undefined THEN "relu" ELSE cfg.activation
        step == IF d > 0 THEN 2 ELSE 1
    IN /\ cfg.modelType = "deep" =>
            /\ Len(m) = step * Len(h) + 1
            /\ \A j \in 1..Len(h) :
                 /\ IsDense(m[step * (j - 1) + 1], h[j], act)
                 /\ d > 0 => m[step * (j - 1) + 2].type = "dropout" /\ m[step * (j - 1) + 2].rate = d
            /\ DropoutCount(m) = IF d > 0 THEN Len(h) ELSE 0
            /\ IsDense(m[Len(m)], 1, "sigmoid")
            /\ m[1].inputShape = <<modelArgs.inputFeatures>>
       /\ cfg.modelType = "linear" =>
            /\ Len(m) = 1
            /\ IsDense(m[1], 1, "sigmoid")
            /\ m[1].inputShape = <<modelArgs.inputFeatures>>

\* C17 witness: a deep model of widths 8, 16 with dropout 0.2 has been built
C17_Witness ==
  /\ built # <<>>
  /\ modelArgs.config.modelType = "deep"
  /\ modelArgs.config.hiddenLayers = <<8, 16>>
  /\ modelArgs.config.dropoutRate = 2
  /\ Len(built[1]) = 5
  /\ built[1][3].units = 16
  /\ built[1][4].type = "dropout"

\* C18: createModel called with a modelType that is missing or is not one of
\* simple, deep, wide, linear resolves to the layer sequence
\* createSimpleModel builds for the same inputFeatures and config: one
\* 32-unit hidden layer, a dropout layer when dropoutRate > 0, and the
\* 1-unit sigmoid output.
C18_UnknownTypeBuildsSimple ==
  (built # <<>> /\ modelArgs.config.modelType \notin {"simple", "deep", "wide", "linear"}) =>
    LET cfg == modelArgs.config
        m == built[1]
        d == cfg.dropoutRate
        act == IF cfg.activation = Undefined THEN "relu" ELSE cfg.activation
    IN /\ m = createSimpleModel(modelArgs.inputFeatures, cfg)
       /\ Len(m) = IF d > 0 THEN 3 ELSE 2
       /\ IsDense(m[1], 32, act)
       /\ m[1].inputShape = <<modelArgs.inputFeatures>>
       /\ d > 0 => m[2].type = "dropout" /\ m[2].rate = d
       /\ IsDense(m[Len(m)], 1, "sigmoid")

\* C18 witness: a model has been built for the type "Deep", which no case of
\* the switch matches, from a config that lists two hidden layers
C18_Witness ==
  /\ built # <<>>
  /\ modelArgs.config.modelType = "Deep"
  /\ modelArgs.config.hiddenLayers = <<16, 8>>
  /\ modelArgs.config.dropoutRate = 2
  /\ Len(built[1]) = 3
  /\ built[1][1].units = 32

\* the model types of the configurations the run's trials were given
TrialModelTypes == {configurations[t].modelType : t \in 1..trialsToRun}

\* C19: an AutoML run with maxTrials at its maximum, 50, evaluates
\* configurations of all four model architectures: simple, deep, wide and
\* linear are each the modelType of at least one trial.
C19_AllArchitecturesTried ==
  (pc = "done" /\ autoMLConfig.maxTrials = MaxConfigurations) =>
    {"simple", "deep", "wide", "linear"} \subseteq TrialModelTypes

\* C20: autoMLConfig.earlyStoppingPatience and autoMLConfig.validationSplit
\* have no effect: every fit runs for the full epochs of its trial's
\* configuration (the base config's epochs, capped at 20) with the fixed 20%
\* validation split, whatever the two fields are; and a second invocation
\* that differs from the first only in these two fields, its fits and
\* evaluations ending as in the first, has performed the same sequence of
\* fits, made the same onProgress calls and returned the same leaderboard.
C20_KnobsHaveNoEffect ==
  /\ \A p \in 1..Len(fits) :
       /\ fits[p].fit.epochs = configurations[fits[p].fit.model.trial].epochs
       /\ fits[p].fit.epochs = Min(baseConfig.epochs, EpochCap)
       /\ fits[p].fit.validationSplit = 2
  /\ (pc = "done" /\ firstRun # <<>>) =>
       /\ firstRun[1].autoMLConfig # autoMLConfig
       /\ firstRun[1].autoMLConfig.maxTrials = autoMLConfig.maxTrials
       /\ firstRun[1].autoMLConfig.crossValidationFolds = autoMLConfig.crossValidationFolds
       /\ firstRun[1].errorLog = errorLog
       /\ firstRun[1].fits = fits
       /\ firstRun[1].calls = calls
       /\ firstRun[1].results = results

\* C20 witness: a second 50-trial invocation has returned after a first one
\* that had the page's defaults for the two fields, with another validation
\* split and a patience below the number of epochs; trials were skipped and
\* results returned
C20_Witness ==
  /\ pc = "done"
  /\ firstRun # <<>>
  /\ firstRun[1].autoMLConfig.validationSplit = 2
  /\ firstRun[1].autoMLConfig.earlyStoppingPatience = 5
  /\ autoMLConfig.validationSplit = 3
  /\ autoMLConfig.earlyStoppingPatience = 1
  /\ Len(results) > 0
  /\ Len(errorLog) > 0
  /\ Len(fits) > 2 * MaxConfigurations

\* C21 (one call): the onProgress call made after the trial with 0-based
\* index i passes (i + 1) / trialsToRun * 100 and i + 1; i + 1 is the number
\* of trials attempted so far, the results collected plus the trials that
\* raised, and exceeds the results collected when an earlier trial raised.
C21_CallArguments ==
  Len(calls') > Len(calls) =>
    LET c == calls'[Len(calls')]
    IN /\ Len(calls') = Len(calls) + 1
       /\ c.currentTrial = i + 1
       /\ c.progress = Quot((i + 1) * 100, trialsToRun)
       /\ c.currentTrial = Len(results') + Cardinality(RaisedTrials)
       /\ RaisedTrials # {} => c.currentTrial > Len(results')

\* C21: every onProgress call passes the percent (i + 1) / trialsToRun * 100
\* and the 1-based index i + 1 of the trial that just succeeded; the
\* denominator is trialsToRun whatever trials were skipped.
C21_PercentAndTrialIndex ==
  /\ [][C21_CallArguments]_vars
  /\ [](\A k \in 1..Len(calls) :
          /\ calls[k].progress.num = calls[k].currentTrial * 100
          /\ calls[k].progress.den = trialsToRun
          /\ calls[k].currentTrial \in ResultTrials)

\* C21 witness: the first trial raised and the second succeeded, so the only
\* call passed 2 as its second argument with one result collected
C21_Witness ==
  /\ pc = "done"
  /\ trialsToRun = 2
  /\ RaisedTrials = {1}
  /\ Len(results) = 1
  /\ Len(calls) = 1
  /\ calls[1].currentTrial = 2
  /\ calls[1].progress = Quot(200, 2)

\* C22: in each successful trial the model of the ModelResult is built after
\* cross-validation finished and fitted on the full dataset: the final fit
\* is passed every row runAutoML was given, and all N of them are training
\* samples of that fit.
C22_FinalFitOnAllSamples ==
  \A p \in 1..Len(fits) :
    (fits[p].at = "start" /\ fits[p].fit.model.name = "final") =>
      /\ p > 2 * autoMLConfig.crossValidationFolds
      /\ fits[p - 1].at = "resolved"
      /\ fits[p - 1].fit.model = FoldModel(fits[p].fit.model.trial, autoMLConfig.crossValidationFolds - 1)
      /\ Range(fits[p].fit.samples) = 0..(features.rows - 1)
      /\ Range(TrainingSamples(fits[p].fit)) = 0..(features.rows - 1)

\* C24: every configuration generateModelConfigurations returns has
\* learningRate 0.001 and batchSize 16, and dropoutRate 0 (the first 36) or
\* 0.1 (the last 14), whatever baseConfig and maxTrials are: no fit and no
\* result of runAutoML has another learning rate, batch size or dropout rate.
C24_OnlyFirstRatesAndSizes ==
  Called =>
    /\ Len(configurations) = 36 + 14
    /\ \A n \in 1..Len(configurations) :
         /\ configurations[n].learningRate = 1
         /\ configurations[n].batchSize = 16
         /\ configurations[n].dropoutRate = (IF n <= 36 THEN 0 ELSE 1)
    /\ \A p \in 1..Len(fits) :
         /\ fits[p].fit.batchSize = 16
         /\ fits[p].fit.batchSize = configurations[fits[p].fit.model.trial].batchSize
    /\ \A r \in Range(results) :
         /\ r.config.learningRate = 1
         /\ r.config.batchSize = 16
         /\ r.config.dropoutRate = (IF r.model.trial <= 36 THEN 0 ELSE 1)

\* C24 witness: a run over all 50 configurations, from a base config that
\* sets other rates and sizes, has returned results from both dropout rates
C24_Witness ==
  /\ pc = "done"
  /\ baseConfig = CustomConfig
  /\ trialsToRun = 50
  /\ configurations[36].dropoutRate = 0
  /\ configurations[37].dropoutRate = 1
  /\ \E r \in Range(results) : r.model.trial <= 36
  /\ \E r \in Range(results) : r.model.trial > 36 /\ r.config.dropoutRate = 1

\* c and d differ in hiddenLayers and in nothing else
DifferOnlyInHiddenLayers(c, d) ==
  c.hiddenLayers # d.hiddenLayers /\ [c EXCEPT !.hiddenLayers = d.hiddenLayers] = d

\* what a trial with configuration c builds and how it trains it: the model
\* createModel builds for it and the settings trainModel reads
BuildAndTraining(c) ==
  [model |-> createModel(MaxColumns, c), optimizer |-> c.optimizer,
   learningRate |-> c.learningRate, batchSize |-> c.batchSize, epochs |-> c.epochs]

\* C25 (the configurations of a run): generated configurations that differ
\* only in hiddenLayers build the same model for every input width, and the
\* 50 trials of a full run cover 13 distinct combinations of dropoutRate,
\* optimizer and activation, which are all the distinct models and training
\* settings among them.
C25_Configurations ==
    /\ \A n, m \in 1..Len(configurations) :
         DifferOnlyInHiddenLayers(configurations[n], configurations[m]) =>
           \A d \in 1..MaxColumns :
             createModel(d, configurations[n]) = createModel(d, configurations[m])
    /\ trialsToRun = MaxConfigurations =>
         /\ Cardinality({<<configurations[t].dropoutRate, configurations[t].optimizer,
                           configurations[t].activation>> : t \in 1..trialsToRun}) = 13
         /\ Cardinality({BuildAndTraining(configurations[t]) : t \in 1..trialsToRun}) = 13

\* C25: every generated configuration has modelType 'simple', and whenever
\* a step sets the configurations of a run, C25_Configurations holds of them.
C25_HiddenLayersIgnored ==
  /\ [](Called => \A n \in 1..Len(configurations) : configurations[n].modelType = "simple")
  /\ [][configurations' # configurations => C25_Configurations']_vars

\* C25 witness: a full run of 50 trials has returned; its first two
\* configurations differ only in hiddenLayers and build the same model
C25_Witness ==
  /\ pc = "done"
  /\ trialsToRun = MaxConfigurations
  /\ Len(results) > 0
  /\ DifferOnlyInHiddenLayers(configurations[1], configurations[2])
  /\ configurations[2].hiddenLayers = <<64, 32>>
  /\ Len(createModel(1, configurations[2])) = 2
  /\ createModel(1, configurations[2])[1].units = 32

\* the results of maximal accuracy among rs
MaxAccuracyResults(rs) ==
  {r \in Range(rs) : \A q \in Range(rs) : QGeq(r.metrics.accuracy, q.metrics.accuracy)}

\* C26: when runAutoML has returned a non-empty leaderboard and onProgress
\* was supplied and never raised, results[0] is the ModelResult passed as
\* bestResult in the last onProgress call, and it is the result of the
\* earliest trial among those with the maximum accuracy.
C26_TopIsLastReportedBest ==
  (pc = "done" /\ results # <<>> /\ onProgress = "returns") =>
    /\ calls # <<>>
    /\ calls[Len(calls)].bestResult = <<results[1]>>
    /\ bestResult = <<results[1]>>
    /\ results[1] \in MaxAccuracyResults(results)
    /\ \A r \in MaxAccuracyResults(results) : results[1].model.trial <= r.model.trial

\* C26 witness: a returned leaderboard whose top result ties with a later
\* trial's result, after a trial of lower accuracy came first
C26_Witness ==
  /\ pc = "done"
  /\ onProgress = "returns"
  /\ Len(results) >= 3
  /\ Cardinality(MaxAccuracyResults(results)) >= 2
  /\ results[1].model.trial > 1
  /\ 1 \in ResultTrials
  /\ calls[Len(calls)].bestResult = <<results[1]>>
  /\ calls[Len(calls)].currentTrial > results[2].model.trial

\* C27 (the step): when onProgress raises at the end of trial i, the trial's
\* ModelResult has been appended and stays, the best-so-far has been updated
\* with it, and the loop moves to trial i + 1, or returns after the last one.
C27_RaiseInCallback ==
  (Len(errorLog') > Len(errorLog) /\ errorLog'[Len(errorLog')].origin = "onProgress") =>
    /\ errorLog'[Len(errorLog')].trial = i + 1
    /\ Len(calls') = Len(calls) + 1
    /\ Len(results') = Len(results) + 1
    /\ Range(results) \subseteq Range(results')
    /\ \E r \in NewResults :
         /\ r.model.trial = i + 1
         /\ bestResult' = UpdateBest(bestResult, r)
         /\ bestResult = <<>> => bestResult' = <<r>>
    /\ i' = i + 1
    /\ LoopGoesOn

\* C27: a raise of onProgress is caught by the trial's handler: the run goes
\* on with the next trial and the trial's result stays in the leaderboard,
\* eligible as best; when the run has returned, every trial whose callback
\* raised has its result in the leaderboard and the best is the top result.
C27_CallbackRaiseIsCaught ==
  /\ [][C27_RaiseInCallback]_vars
  /\ [](\A k \in 1..Len(errorLog) :
          errorLog[k].origin = "onProgress" => errorLog[k].trial \in ResultTrials)
  /\ []((pc = "done" /\ results # <<>>) => bestResult = <<results[1]>>)

\* C27 witness: a run of two trials whose callback raised after each has
\* returned both results, the second one, of greater accuracy, as the best
C27_Witness ==
  /\ pc = "done"
  /\ onProgress = "raises"
  /\ trialsToRun = 2
  /\ Len(results) = 2
  /\ Len(errorLog) = 2
  /\ errorLog[1] = [trial |-> 1, origin |-> "onProgress"]
  /\ results[1].model.trial = 2
  /\ bestResult = <<results[1]>>

\* the trials in which a fold of crossValidate raised
FoldRaisedTrials == {e.trial : e \in {x \in Range(errorLog) : x.origin \in FoldRaiseOrigins}}

\* C28 (the raising step): when creation, training, evaluation or the
\* reading of an evaluation raises in fold f of trial i, crossValidate
\* rejects at once: the step adds at most the end of that fold's fit, starts
\* no fit, sets up no further fold and leaves the results, the best and the
\* calls as they are.
C28_RaiseInFold ==
  (InFold /\ pc' = "cv.rejected" /\ rejection'[1] \notin FoldSetUpOrigins) =>
    /\ rejection'[1] \in FoldRaiseOrigins
    /\ pc = RaisesAt(rejection'[1])
    /\ i' = i
    /\ fold' = fold
    /\ allocated' = allocated
    /\ Len(fits') <= Len(fits) + 1
    /\ \A p \in (Len(fits) + 1)..Len(fits') :
         fits'[p].at # "start" /\ fits'[p].fit.model = FoldModel(i + 1, fold)
    /\ results' = results
    /\ bestResult' = bestResult
    /\ calls' = calls

\* C28 (the trial's end): runAutoML resumes with the exception of
\* crossValidate, logs it for trial i and goes on with the next trial or
\* returns: the trial has fitted no fold after the raising one, and it
\* gets no final model, no final fit, no ModelResult and no onProgress call.
C28_RejectionEndsTrial ==
  pc = "cv.rejected" =>
    /\ rejection # <<>>
    /\ Len(errorLog') = Len(errorLog) + 1
    /\ errorLog'[Len(errorLog')] = [trial |-> i + 1, origin |-> rejection[1]]
    /\ i' = i + 1
    /\ LoopGoesOn
    /\ \A p \in 1..Len(fits') :
         fits'[p].fit.model.trial = i + 1 =>
           /\ fits'[p].fit.model.name = "fold"
           /\ fits'[p].fit.model.fold <= fold
    /\ fits' = fits
    /\ FinalModelResource(i + 1) \notin allocated'
    /\ NewResults = {}
    /\ Len(results') = Len(results)
    /\ bestResult' = bestResult
    /\ calls' = calls

\* the trials in which a fold has raised: those logged, and the one in
\* progress when crossValidate has rejected and runAutoML has not resumed
RejectedTrials == FoldRaisedTrials \cup (IF pc = "cv.rejected" THEN {i + 1} ELSE {})

\* C28: a raise in a fold leaves crossValidate at once and ends the trial;
\* a trial in which a fold raised never has a fold entered after the raising
\* one, a final model, a final fit, a ModelResult or an onProgress call.
C28_FoldRaiseEndsTrial ==
  /\ [][C28_RaiseInFold]_vars
  /\ [][C28_RejectionEndsTrial]_vars
  /\ [](\A t \in RejectedTrials :
          /\ t \notin ResultTrials
          /\ FinalModelResource(t) \notin allocated
          /\ \A p \in 1..Len(fits) : fits[p].fit.model.trial = t => fits[p].fit.model.name = "fold"
          /\ \A k \in 1..Len(calls) : calls[k].currentTrial # t)
  /\ [](\A t \in FoldRaisedTrials : InTrial => t # i + 1)
  /\ []((pc = "cv.rejected" \/ (pc = "done" /\ trialsToRun \in FoldRaisedTrials)) =>
          LET setUpRaised == IF pc = "done"
                             THEN errorLog[Len(errorLog)].origin \in FoldSetUpOrigins
                             ELSE rejection[1] \in FoldSetUpOrigins
              evaluated == IF setUpRaised THEN Len(cvFolds) ELSE Len(cvFolds) - 1
          IN /\ evaluated < autoMLConfig.crossValidationFolds
             /\ evaluated >= 0
             /\ \A f \in 1..Len(cvFolds) : cvFolds[f].evaluated <=> f <= evaluated)

\* C28 witness: the first fold of the only trial raised in training, with
\* three folds asked for: one fold was entered, one fit made, and the run
\* returned an empty leaderboard without a call
C28_Witness ==
  /\ pc = "done"
  /\ trialsToRun = 1
  /\ autoMLConfig.crossValidationFolds = 3
  /\ onProgress = "returns"
  /\ errorLog = <<[trial |-> 1, origin |-> "cv.trainModel"]>>
  /\ Len(cvFolds) = 1
  /\ Len(fits) = 2
  /\ fits[2].at = "rejected"
  /\ results = <<>>
  /\ calls = <<>>

\* C29 (one fold): with 2 <= folds <= N the fold's validation block and
\* training set are both non-empty; with folds > N a fold before the last
\* has an empty validation block, and the last fold validates on all N
\* samples and has an empty training set.
C29_FoldBlocks(N, k, f, val, train) ==
  /\ (2 <= k /\ k <= N) => val # <<>> /\ train # <<>>
  /\ k > N =>
       /\ N \div k = 0
       /\ f < k - 1 => val = <<>> /\ Range(train) = 0..(N - 1)
       /\ f = k - 1 => Range(val) = 0..(N - 1) /\ Len(val) = N /\ train = <<>>

\* C29: the index sets crossValidate computes for each of its folds, and
\* the ones recorded for every fold it has entered, are as C29_FoldBlocks
\* says, for the dataset size and the fold count of the run.
C29_EmptyBlocksWhenFoldsExceedN ==
  LET N == features.rows
      k == autoMLConfig.crossValidationFolds
  IN /\ \A f \in 0..(k - 1) :
          C29_FoldBlocks(N, k, f, ValIndices(N, k, f), TrainIndices(N, k, f))
     /\ \A f \in 1..Len(cvFolds) :
          C29_FoldBlocks(N, k, f - 1, cvFolds[f].valIndices, cvFolds[f].trainIndices)

\* C29 witness: crossValidate was asked for three folds of a two-sample
\* dataset and has entered all three: the first two validated on nothing,
\* the last one on both samples with nothing to train on
C29_Witness ==
  /\ features.rows = 2
  /\ autoMLConfig.crossValidationFolds = 3
  /\ Len(cvFolds) = 3
  /\ cvFolds[1].valIndices = <<>>
  /\ cvFolds[1].trainIndices = <<0, 1>>
  /\ cvFolds[2].valIndices = <<>>
  /\ cvFolds[3].valIndices = <<0, 1>>
  /\ cvFolds[3].trainIndices = <<>>

\* the step in which a runAutoML invocation started from the page returns
\* an empty leaderboard
AutoMLReturnsEmpty ==
  inFlight'["runAutoML"] < inFlight["runAutoML"] /\ autoMLResults' = <<>>

\* C23: after an AutoML run started from the page returns an empty
\* leaderboard, the Results step the page moves to shows the empty-results
\* indication 'No AutoML results available', not the manual-training results
\* view of a model kept from an earlier run, and not nothing.
C23_EmptyLeaderboardSurfaced ==
  [][AutoMLReturnsEmpty =>
       /\ activeStep' = 3
       /\ ResultsStep' = "No AutoML results available"]_vars

\* C30: isAutoMLRunning is true in every state in which a runAutoML
\* invocation started by handleTrainingStart has not returned, whatever the
\* user did meanwhile; so the Start AutoML button is disabled in these
\* states and at most one AutoML run is in flight.
C30_RunningWhileInFlight ==
  /\ inFlight["runAutoML"] > 0 => isAutoMLRunning /\ StartAutoMLDisabled
  /\ inFlight["runAutoML"] <= 1

====
